---- MODULE Spec2Model ----
(***************************************************************************)
(* A model of the aggregation core of news-terminal: the title dedup and   *)
(* priority ranking, the two TTL caches with their fetch throttle, the two *)
(* aggregation entry points, the source adapters and the refresh loops.    *)
(*                                                                         *)
(* Text is modelled as a sequence of character codes, so that lower() and  *)
(* strip() are computed and not assumed.  Time is an integer count of      *)
(* half seconds (the smallest interval the program configures, 0.5 s).     *)
(***************************************************************************)
EXTENDS Integers, Sequences, FiniteSets, TLC

VARIABLES
    all_articles,           \* the item list handed to the dedup step
    max_articles_display,   \* DEFAULT_CONFIG.terminal.max_articles_display
    prioritized,            \* what _deduplicate_and_prioritize returned
    unique,                 \* what _deduplicate_articles returned
    kind,                   \* the cache class of the instance followed
    now,                    \* the clock: time.time() / datetime.now()
    ticks,                  \* how often the clock has been advanced
    cache,                  \* _cache: key -> (articles, timestamp)
    last_fetch,             \* _last_fetch_times / _last_api_call: key -> time
    ret,                    \* what the cache call made at this instant returned
    set_log,                \* key -> (items, time) of the last set not cleared since
    last_update,            \* the aggregator's _last_update
    current_articles,       \* NewsAggregator._current_articles
    update_count,           \* RealTimeNewsAggregator._update_count
    result,                 \* the outcome of the aggregation call made at this instant
    adapter_ret,            \* the outcome of the last fetch operation of an adapter
    loop_kind,              \* which refresh loop is followed
    pc,                     \* the position of the loop's thread of control
    running,                \* StreamingNewsApp.running
    fetch_task,             \* the fetch_task local of StreamingNewsApp.run
    in_flight,              \* upstream fetches started and not yet finished
    shown,                  \* current_articles of the display / the terminal's items
    pending,                \* the items the cycle in progress has fetched
    last_cycle,             \* the last completed cycle: previous result, result, notified
    signalled,              \* a shutdown signal has been delivered
    after_signal,           \* a fetch was started after the shutdown signal
    ended_by,               \* why the loop has stopped
    lock,                   \* the thread holding RealTimeCache._lock
    writer,                 \* the thread inside set(): its position and the calls made
    reader,                 \* what the reading thread has observed
    requests,               \* two category lists and the cache keys made of them
    callers                 \* the concurrent calls of fetch_real_time_news

dedupVars == <<all_articles, max_articles_display, prioritized, unique>>
cacheVars == <<kind, now, ticks, cache, last_fetch>>
callVars == <<ret, set_log>>
aggVars == <<last_update, current_articles, update_count, result>>
adapterVars == <<adapter_ret>>
loopVars == <<loop_kind, pc, running, fetch_task, in_flight, shown, pending, last_cycle,
              signalled, after_signal, ended_by>>
threadVars == <<lock, writer, reader>>
requestVars == <<requests, callers>>

----------------------------------------------------------------------------
(* Text: str.lower(), str.strip(), the substring test `x in s`.            *)

\* str.lower() on one character: 'A'..'Z' map to 'a'..'z', the rest is kept.
LowerChar(c) == IF c >= 65 /\ c <= 90 THEN c + 32 ELSE c

\* str.lower()
Lower(s) == [i \in 1..Len(s) |-> LowerChar(s[i])]

\* The characters str.strip() removes: tab, LF, VT, FF, CR, FS..US, space.
IsSpace(c) == c \in {9, 10, 11, 12, 13, 28, 29, 30, 31, 32}

\* str.strip(): drop the leading and the trailing whitespace.
Strip(s) ==
    LET keep == {i \in 1..Len(s) : ~IsSpace(s[i])}
    IN  IF keep = {} THEN <<>>
        ELSE LET first == CHOOSE i \in keep : \A j \in keep : i <= j
                 last  == CHOOSE i \in keep : \A j \in keep : j <= i
             IN  SubSeq(s, first, last)

\* Python's `sub in s` on strings.
Contains(sub, s) ==
    \E i \in 1..(Len(s) - Len(sub) + 1) : SubSeq(s, i, i + Len(sub) - 1) = sub

----------------------------------------------------------------------------
(* The configured word lists of RealTimeNewsAggregator.__init__.           *)

\* "breaking"
Kw_breaking == <<98, 114, 101, 97, 107, 105, 110, 103>>
\* "urgent"
Kw_urgent == <<117, 114, 103, 101, 110, 116>>
\* "alert"
Kw_alert == <<97, 108, 101, 114, 116>>
\* "flash"
Kw_flash == <<102, 108, 97, 115, 104>>
\* "developing"
Kw_developing == <<100, 101, 118, 101, 108, 111, 112, 105, 110, 103>>
\* "halt"
Kw_halt == <<104, 97, 108, 116>>
\* "suspend"
Kw_suspend == <<115, 117, 115, 112, 101, 110, 100>>
\* "emergency"
Kw_emergency == <<101, 109, 101, 114, 103, 101, 110, 99, 121>>
\* "crash"
Kw_crash == <<99, 114, 97, 115, 104>>
\* "surge"
Kw_surge == <<115, 117, 114, 103, 101>>

breaking_news_keywords ==
    {Kw_breaking, Kw_urgent, Kw_alert, Kw_flash, Kw_developing,
     Kw_halt, Kw_suspend, Kw_emergency, Kw_crash, Kw_surge}

\* "Bloomberg"
Src_Bloomberg == <<66, 108, 111, 111, 109, 98, 101, 114, 103>>
\* "Reuters"
Src_Reuters == <<82, 101, 117, 116, 101, 114, 115>>
\* "Financial Times"
Src_FinancialTimes == <<70, 105, 110, 97, 110, 99, 105, 97, 108, 32, 84, 105, 109, 101, 115>>
\* "MarketWatch"
Src_MarketWatch == <<77, 97, 114, 107, 101, 116, 87, 97, 116, 99, 104>>
\* "Yahoo Finance"
Src_YahooFinance == <<89, 97, 104, 111, 111, 32, 70, 105, 110, 97, 110, 99, 101>>
\* "CNBC"
Src_CNBC == <<67, 78, 66, 67>>
\* "Wall Street Journal"
Src_WallStreetJournal == <<87, 97, 108, 108, 32, 83, 116, 114, 101, 101, 116, 32, 74, 111, 117, 114, 110, 97, 108>>

priority_sources ==
    {Src_Bloomberg, Src_Reuters, Src_FinancialTimes, Src_MarketWatch,
     Src_YahooFinance, Src_CNBC, Src_WallStreetJournal}

----------------------------------------------------------------------------
(* NewsArticle values the sources can yield.                               *)

\* "  Tech Co reports Earnings  "
TitleEarningsPadded == <<32, 32, 84, 101, 99, 104, 32, 67, 111, 32, 114, 101, 112, 111, 114, 116, 115, 32, 69, 97, 114, 110, 105, 110, 103, 115, 32, 32>>
\* "tech co reports earnings"
TitleEarningsLower == <<116, 101, 99, 104, 32, 99, 111, 32, 114, 101, 112, 111, 114, 116, 115, 32, 101, 97, 114, 110, 105, 110, 103, 115>>
\* "Fed cuts rates"
TitleFed == <<70, 101, 100, 32, 99, 117, 116, 115, 32, 114, 97, 116, 101, 115>>
\* "BREAKING: market halt triggered"
TitleBreaking == <<66, 82, 69, 65, 75, 73, 78, 71, 58, 32, 109, 97, 114, 107, 101, 116, 32, 104, 97, 108, 116, 32, 116, 114, 105, 103, 103, 101, 114, 101, 100>>
\* "Oil is up" (9 characters)
TitleShort == <<79, 105, 108, 32, 105, 115, 32, 117, 112>>
\* " Gold is up " (10 characters once stripped)
TitleTen == <<32, 71, 111, 108, 100, 32, 105, 115, 32, 117, 112, 32>>
\* "Urgent update"
DescUrgent == <<85, 114, 103, 101, 110, 116, 32, 117, 112, 100, 97, 116, 101>>
\* "Reuters Business"
SourceReutersBusiness == <<82, 101, 117, 116, 101, 114, 115, 32, 66, 117, 115, 105, 110, 101, 115, 115>>
\* "r/news"
SourceReddit == <<114, 47, 110, 101, 119, 115>>

\* "Hacker News"
SourceHackerNews == <<72, 97, 99, 107, 101, 114, 32, 78, 101, 119, 115>>
\* "TechCrunch"
SourceTechCrunch == <<84, 101, 99, 104, 67, 114, 117, 110, 99, 104>>

\* The largest published_at of the modelled items.
MaxPublished == 2

\* The longest item list handed to the dedup step.
MaxInput == 3

\* @dataclass NewsArticle (url is carried nowhere in the core and is left out).
NewsArticle(title, description, source, published_at, category) ==
    [title |-> title, description |-> description, source |-> source,
     published_at |-> published_at, category |-> category]

\* (title, description, source, category) of the headlines the sources carry.
Headlines ==
    { <<TitleEarningsPadded, <<>>, SourceReutersBusiness, "business">>,
      <<TitleEarningsLower, <<>>, SourceReddit, "general">>,
      <<TitleFed, <<>>, SourceReddit, "general">>,
      <<TitleFed, DescUrgent, SourceReutersBusiness, "business">>,
      <<TitleBreaking, <<>>, SourceReddit, "general">>,
      <<TitleShort, <<>>, SourceReddit, "general">>,
      <<TitleTen, <<>>, Src_Bloomberg, "business">> }

ArticlePool ==
    { NewsArticle(h[1], h[2], h[3], p, h[4]) : h \in Headlines, p \in 1..MaxPublished }

\* The category vocabulary of the modelled requests.
Categories == {"general", "technology"}

\* What each source holds for a category: the two API clients of
\* get_api_clients() without keys, and the RSS feeds of the category.
SourceItems ==
    [c \in Categories |->
        IF c = "general"
        THEN [hn     |-> <<NewsArticle(TitleFed, <<>>, SourceHackerNews, 2, "general")>>,
              reddit |-> <<NewsArticle(TitleEarningsLower, <<>>, SourceReddit, 1, "general"),
                           NewsArticle(TitleBreaking, <<>>, SourceReddit, 1, "general")>>,
              rss    |-> <<NewsArticle(TitleEarningsPadded, <<>>, SourceReutersBusiness, 2, "business")>>]
        ELSE [hn     |-> <<NewsArticle(TitleBreaking, DescUrgent, SourceHackerNews, 1, "technology")>>,
              reddit |-> <<>>,
              rss    |-> <<NewsArticle(TitleTen, <<>>, SourceTechCrunch, 2, "technology")>>]]

\* The elements of a sequence.
Range(s) == {s[i] : i \in 1..Len(s)}

FeedArticles ==
    UNION {Range(SourceItems[c].hn) \cup Range(SourceItems[c].reddit)
           \cup Range(SourceItems[c].rss) : c \in Categories}

AllArticles == ArticlePool \cup FeedArticles

\* All sequences over S of length at most n.
SeqUpTo(S, n) == UNION { [1..k -> S] : k \in 0..n }

----------------------------------------------------------------------------
(* Dedup and priority ranking.                                             *)

\* The minimum length of a normalized title.
MinTitleLength == 10

\* The default of TerminalConfig.max_articles_display.
DefaultMaxArticlesDisplay == 150

\* The configured values of max_articles_display: the default, and a small one
\* under which truncation happens.
SmallMaxArticlesDisplay == 2

DisplayLimits == {SmallMaxArticlesDisplay, DefaultMaxArticlesDisplay}

\* A title key that is lower-cased but not stripped.
TitleKeyNoStrip(article) == Lower(article.title)

\* title_key = article.title.lower().strip()
TitleKey(article) == Strip(Lower(article.title))

\* A breaking test that reads the title only.
IsBreakingNewsTitleOnly(article) ==
    \E keyword \in breaking_news_keywords : Contains(keyword, Lower(article.title))

\* RealTimeNewsAggregator._is_breaking_news
IsBreakingNews(article) ==
    LET title_lower == Lower(article.title)
        desc_lower  == Lower(article.description)
    IN  \E keyword \in breaking_news_keywords :
            Contains(keyword, title_lower) \/ Contains(keyword, desc_lower)

\* RealTimeNewsAggregator._is_priority_source
IsPrioritySource(article) ==
    \E priority_source \in priority_sources :
        Contains(Lower(priority_source), Lower(article.source))

\* What the dedup loops compute of one item, tabulated once per modelled item.
Classified ==
    [a \in AllArticles |->
        [title_key |-> TitleKey(a), breaking |-> IsBreakingNews(a),
         priority |-> IsPrioritySource(a)]]

\* A sort that leaves the list in its input order.
SortLeavesInputOrder(s) == s

\* list.sort(key=lambda x: x.published_at, reverse=True): stable, an item goes
\* behind every item that is not older than it.
RECURSIVE SortByPublishedDesc(_)
SortByPublishedDesc(s) ==
    IF s = <<>> THEN <<>>
    ELSE LET x    == s[Len(s)]
             rest == SortByPublishedDesc(SubSeq(s, 1, Len(s) - 1))
             ahead == {i \in 1..Len(rest) : rest[i].published_at >= x.published_at}
             k    == IF ahead = {} THEN 0
                     ELSE CHOOSE i \in ahead : \A j \in ahead : j <= i
         IN  SubSeq(rest, 1, k) \o <<x>> \o SubSeq(rest, k + 1, Len(rest))

\* list[:n]
Truncate(s, n) == SubSeq(s, 1, IF Len(s) < n THEN Len(s) ELSE n)

\* A skip test that looks at the length only.
RtSkipsShortOnly(title_key, seen_titles) == Len(title_key) < MinTitleLength

\* The test that skips an item in _deduplicate_and_prioritize.
RtSkips(title_key, seen_titles) ==
    title_key \in seen_titles \/ Len(title_key) < MinTitleLength

\* The loop of _deduplicate_and_prioritize over articles[i..].
RECURSIVE PrioritizeLoop(_, _, _)
PrioritizeLoop(articles, i, acc) ==
    IF i > Len(articles) THEN acc
    ELSE LET article   == articles[i]
             title_key == Classified[article].title_key
         IN  IF RtSkips(title_key, acc.seen_titles)
             THEN PrioritizeLoop(articles, i + 1, acc)
             ELSE LET seen == acc.seen_titles \cup {title_key}
                  IN  IF Classified[article].breaking
                      THEN PrioritizeLoop(articles, i + 1,
                               [acc EXCEPT !.seen_titles = seen,
                                           !.breaking_news = Append(@, article)])
                      ELSE IF Classified[article].priority
                      THEN PrioritizeLoop(articles, i + 1,
                               [acc EXCEPT !.seen_titles = seen,
                                           !.priority_news = Append(@, article)])
                      ELSE PrioritizeLoop(articles, i + 1,
                               [acc EXCEPT !.seen_titles = seen,
                                           !.regular_news = Append(@, article)])

\* The three tier lists of _deduplicate_and_prioritize when its loop is done.
Tiered(articles) ==
    PrioritizeLoop(articles, 1,
        [seen_titles |-> {}, breaking_news |-> <<>>,
         priority_news |-> <<>>, regular_news |-> <<>>])

\* RealTimeNewsAggregator._deduplicate_and_prioritize
DeduplicateAndPrioritize(articles, limit) ==
    LET acc == Tiered(articles)
        prioritized_articles ==
            SortByPublishedDesc(acc.breaking_news)
            \o SortByPublishedDesc(acc.priority_news)
            \o SortByPublishedDesc(acc.regular_news)
    IN  Truncate(prioritized_articles, limit)

\* The test that keeps an item in _deduplicate_articles.
NaKeeps(title_key, seen_titles) ==
    title_key \notin seen_titles /\ Len(title_key) > MinTitleLength

\* The loop of _deduplicate_articles over articles[i..].
RECURSIVE UniqueLoop(_, _, _, _)
UniqueLoop(articles, i, seen_titles, unique_articles) ==
    IF i > Len(articles) THEN unique_articles
    ELSE LET article   == articles[i]
             title_key == Classified[article].title_key
         IN  IF NaKeeps(title_key, seen_titles)
             THEN UniqueLoop(articles, i + 1, seen_titles \cup {title_key},
                             Append(unique_articles, article))
             ELSE UniqueLoop(articles, i + 1, seen_titles, unique_articles)

\* NewsAggregator._deduplicate_articles
DeduplicateArticles(articles) == UniqueLoop(articles, 1, {}, <<>>)

\* A call that has not been made / a call that returned `articles`.
NotCalled == [called |-> FALSE, articles |-> <<>>]
Returned(articles) == [called |-> TRUE, articles |-> articles]

\* The dedup step of the real-time aggregator is applied to the item list.
CallDeduplicateAndPrioritize ==
    /\ ~prioritized.called
    /\ prioritized' = Returned(DeduplicateAndPrioritize(all_articles, max_articles_display))
    /\ UNCHANGED <<all_articles, max_articles_display, unique>>
    /\ UNCHANGED <<requestVars, cacheVars, callVars, aggVars, adapterVars, loopVars, threadVars>>

\* The dedup step of the standard aggregator is applied to the item list.
CallDeduplicateArticles ==
    /\ ~unique.called
    /\ unique' = Returned(DeduplicateArticles(all_articles))
    /\ UNCHANGED <<all_articles, max_articles_display, prioritized>>
    /\ UNCHANGED <<requestVars, cacheVars, callVars, aggVars, adapterVars, loopVars, threadVars>>

----------------------------------------------------------------------------
(* RealTimeCache and NewsCache.  Times are in half seconds.                *)

\* RealTimeCache.min_fetch_interval = 0.5 (seconds)
RtMinFetchInterval == 1

\* RealTimeCache(cache_duration_seconds=30)
RtCacheDuration == 60

\* NewsCache.min_call_interval = timedelta(seconds=10)
NaMinCallInterval == 20

\* NewsCache(DEFAULT_CONFIG.news.cache_duration_minutes), 1 minute
NaCacheDuration == 120

\* How often the clock is advanced in one behaviour.
MaxTicks == 4

CacheKinds == {"RealTimeCache", "NewsCache"}

MinInterval(k) == IF k = "RealTimeCache" THEN RtMinFetchInterval ELSE NaMinCallInterval
CacheDuration(k) == IF k = "RealTimeCache" THEN RtCacheDuration ELSE NaCacheDuration

\* The clock reading at construction: epoch time, far above every interval.
StartClock == 2 * NaCacheDuration

\* The amounts by which the clock advances between two calls: one unit, just
\* short of the throttle interval, and from the throttle interval to just short
\* of the cache duration (sums of these reach both thresholds from both sides).
ClockSteps(k) ==
    {1, MinInterval(k) - 1, CacheDuration(k) - MinInterval(k)} \ {0}

\* An empty dict.
EmptyDict == [k \in {} |-> 0]

\* d[key] = value
DictSet(d, key, value) ==
    [k \in DOMAIN d \cup {key} |-> IF k = key THEN value ELSE d[k]]

\* What get returns: None, or a list of articles.
None == [is_none |-> TRUE, articles |-> <<>>]
List(articles) == [is_none |-> FALSE, articles |-> articles]

\* RealTimeCache.should_fetch
RtShouldFetch(last_fetch_times, key, t) ==
    LET last == IF key \in DOMAIN last_fetch_times THEN last_fetch_times[key] ELSE 0
    IN  (t - last) >= RtMinFetchInterval

\* NewsCache.should_fetch
NaShouldFetch(last_api_call, key, t) ==
    IF key \notin DOMAIN last_api_call THEN TRUE
    ELSE t - last_api_call[key] > NaMinCallInterval

\* RealTimeCache.get with < replaced by <=.
RtGetInclusive(c, key, t) ==
    IF key \in DOMAIN c /\ t - c[key].timestamp <= RtCacheDuration
    THEN List(c[key].articles)
    ELSE None

\* RealTimeCache.get
RtGet(c, key, t) ==
    IF key \in DOMAIN c /\ t - c[key].timestamp < RtCacheDuration
    THEN List(c[key].articles)
    ELSE None

\* NewsCache.get
NaGet(c, key, t) ==
    IF key \in DOMAIN c /\ t - c[key].timestamp < NaCacheDuration
    THEN List(c[key].articles)
    ELSE List(<<>>)

ShouldFetch(k, last, key, t) ==
    IF k = "RealTimeCache" THEN RtShouldFetch(last, key, t) ELSE NaShouldFetch(last, key, t)

Get(k, c, key, t) ==
    IF k = "RealTimeCache" THEN RtGet(c, key, t) ELSE NaGet(c, key, t)

\* set: self._cache[key] = (articles, datetime.now())
CacheAfterSet(c, key, articles, t) ==
    DictSet(c, key, [articles |-> articles, timestamp |-> t])

\* set: self._last_fetch_times[key] = time.time() / self._last_api_call[key] = datetime.now()
LastFetchAfterSet(last, key, t) == DictSet(last, key, t)

\* The alphabetical order of the category names.
CategoryRank == [c \in Categories |-> IF c = "general" THEN 1 ELSE 2]

\* sorted(categories): an item goes behind every item that is not after it.
RECURSIVE Sorted(_)
Sorted(cats) ==
    IF cats = <<>> THEN <<>>
    ELSE LET x    == cats[Len(cats)]
             rest == Sorted(SubSeq(cats, 1, Len(cats) - 1))
             k    == Cardinality({i \in 1..Len(rest) :
                                     CategoryRank[rest[i]] <= CategoryRank[x]})
         IN  SubSeq(rest, 1, k) \o <<x>> \o SubSeq(rest, k + 1, Len(rest))

\* cache_key = f"news_{'-'.join(sorted(categories))}": the prefix is fixed per
\* cache and no category name holds a '-', so the key is the sorted list.
CacheKeyOf(categories) == Sorted(categories)

\* The keys of the direct cache calls.
Keys == { CacheKeyOf(<<c>>) : c \in Categories }

\* The item lists stored by the direct cache calls.
CachedLists ==
    { <<>>,
      <<NewsArticle(TitleBreaking, <<>>, SourceReddit, 1, "general"),
        NewsArticle(TitleFed, <<>>, SourceReddit, 2, "general")>> }

NoCall == [op |-> "none", key |-> <<>>, value |-> None, flag |-> FALSE]

\* No aggregation call was made at this instant.
NoResult ==
    [call |-> "none", categories |-> <<>>, at |-> 0, outcome |-> "none",
     articles |-> <<>>, last_updated |-> 0, total_sources |-> 0,
     categories_of |-> {}, breaking_news_count |-> 0, update_frequency |-> <<0, 1>>,
     fetched |-> FALSE, prev |-> [recorded |-> FALSE, at |-> 0],
     world |-> <<>>, order |-> "none"]

\* The clock advances between two calls, by one of `steps`.
Tick(steps, max_ticks) ==
    /\ ticks < max_ticks
    /\ \E d \in steps : now' = now + d
    /\ ticks' = ticks + 1
    /\ ret' = NoCall
    /\ result' = NoResult
    /\ UNCHANGED <<kind, cache, last_fetch, set_log>>
    /\ UNCHANGED <<last_update, current_articles, update_count>>

\* cache.set(key, articles)
Set(key, articles) ==
    /\ cache' = CacheAfterSet(cache, key, articles, now)
    /\ last_fetch' = LastFetchAfterSet(last_fetch, key, now)
    /\ set_log' = DictSet(set_log, key, [articles |-> articles, at |-> now])
    /\ ret' = [op |-> "set", key |-> key, value |-> None, flag |-> FALSE]
    /\ UNCHANGED <<kind, now, ticks, aggVars>>

\* cache.get(key) of a cache that records every read as a fetch.
GetCallTouching(key) ==
    /\ ret' = [op |-> "get", key |-> key, value |-> Get(kind, cache, key, now), flag |-> FALSE]
    /\ last_fetch' = LastFetchAfterSet(last_fetch, key, now)
    /\ UNCHANGED <<kind, now, ticks, cache, set_log, aggVars>>

\* cache.get(key)
GetCall(key) ==
    /\ ret' = [op |-> "get", key |-> key, value |-> Get(kind, cache, key, now), flag |-> FALSE]
    /\ UNCHANGED <<kind, now, ticks, cache, last_fetch, set_log, aggVars>>

\* cache.should_fetch(key)
ShouldFetchCall(key) ==
    /\ ret' = [op |-> "should_fetch", key |-> key, value |-> None,
               flag |-> ShouldFetch(kind, last_fetch, key, now)]
    /\ UNCHANGED <<kind, now, ticks, cache, last_fetch, set_log, aggVars>>

\* cache.clear()
Clear ==
    /\ cache' = EmptyDict
    /\ last_fetch' = EmptyDict
    /\ set_log' = EmptyDict
    /\ ret' = [op |-> "clear", key |-> <<>>, value |-> None, flag |-> FALSE]
    /\ UNCHANGED <<kind, now, ticks, aggVars>>

\* No fetch operation has been called.
NoFetch ==
    [adapter |-> "none", response |-> [kind |-> "none", top |-> FALSE, list |-> FALSE,
                                       entries |-> <<>>],
     outcome |-> "none", items |-> <<>>]

\* No adapter is under observation.
AdaptersIdle == adapter_ret = NoFetch

\* No fetch task: fetch_task = None.
NoTask == [state |-> "none", articles |-> <<>>]

\* No cycle has completed yet.
NoCycle ==
    [previous |-> <<>>, result |-> <<>>, notified |-> FALSE, completed |-> FALSE,
     compared |-> FALSE]

\* No refresh loop has been started.
LoopsIdle ==
    /\ loop_kind = "none"
    /\ pc = "none"
    /\ running = TRUE
    /\ fetch_task = NoTask
    /\ in_flight = 0
    /\ shown = <<>>
    /\ pending = <<>>
    /\ last_cycle = NoCycle
    /\ signalled = FALSE
    /\ after_signal = FALSE
    /\ ended_by = "none"

\* No observation by a reading thread.
NoObservation ==
    [first |-> "none", key |-> <<>>, items_of |-> 0, stamp_of |-> 0, complete |-> FALSE]

\* No thread is inside a cache operation.
ThreadsIdle ==
    /\ lock = "free"
    /\ writer = [at |-> "idle", key |-> <<>>, sets |-> 0, items_of |-> <<>>, stamp_of |-> <<>>]
    /\ reader = NoObservation

\* No cache key has been made of a pair of request lists.
NoRequests ==
    [first |-> <<>>, second |-> <<>>, keyed |-> FALSE, first_key |-> <<>>, second_key |-> <<>>]

\* The threads and tasks that call fetch_real_time_news: the worker thread of
\* start_streaming and one other caller.
Callers == {"worker", "other"}

\* A caller that is not inside fetch_real_time_news.
Outside == [at |-> "outside", calls |-> 0, articles |-> <<>>, fetched |-> <<>>]

\* No request list is under observation and nobody is inside
\* fetch_real_time_news.
CallersIdle ==
    /\ requests = NoRequests
    /\ callers = [c \in Callers |-> Outside]

\* The state of a cache at construction.
CacheConstructed ==
    /\ now = StartClock
    /\ ticks = 0
    /\ cache = EmptyDict
    /\ last_fetch = EmptyDict
    /\ ret = NoCall
    /\ set_log = EmptyDict

\* datetime.min, the _last_update of a NewsAggregator that has not fetched.
DatetimeMin == 0

\* The state of an aggregator at construction.
AggregatorConstructed ==
    /\ last_update = IF kind = "NewsCache" THEN DatetimeMin ELSE StartClock
    /\ current_articles = <<>>
    /\ update_count = 0
    /\ result = NoResult

\* The dedup step is not under observation.
DedupIdle ==
    /\ all_articles = <<>>
    /\ prioritized = NotCalled
    /\ unique = NotCalled

CacheInit ==
    /\ kind \in CacheKinds
    /\ CacheConstructed
    /\ AggregatorConstructed
    /\ max_articles_display = DefaultMaxArticlesDisplay
    /\ DedupIdle
    /\ AdaptersIdle
    /\ LoopsIdle
    /\ ThreadsIdle
    /\ CallersIdle

CacheNext ==
    \/ Tick(ClockSteps(kind), MaxTicks) /\ UNCHANGED <<requestVars, dedupVars, adapterVars, loopVars, threadVars>>
    \/ \E key \in Keys, articles \in CachedLists : Set(key, articles) /\ UNCHANGED <<requestVars, dedupVars, adapterVars, loopVars, threadVars>>
    \/ \E key \in Keys : GetCall(key) /\ UNCHANGED <<requestVars, dedupVars, adapterVars, loopVars, threadVars>>
    \/ \E key \in Keys : ShouldFetchCall(key) /\ UNCHANGED <<requestVars, dedupVars, adapterVars, loopVars, threadVars>>
    \/ Clear /\ UNCHANGED <<requestVars, dedupVars, adapterVars, loopVars, threadVars>>

----------------------------------------------------------------------------
(* The sources and the tasks of one aggregation cycle.                     *)

\* What one source does when it is asked: it yields the items it holds, or its
\* fetch raises.
ClientOutcomes == {"yields", "raises"}

\* What a task of the pool does: it returns, it raises, or it is still running
\* when the deadline of as_completed elapses.
TaskStatuses == {"ok", "raises", "running"}

\* The items a source hands back.
Yielded(category, source, outcome) ==
    IF outcome = "yields" THEN SourceItems[category][source] ELSE <<>>

\* get_api_clients() with no API key configured.
Clients == <<"hn", "reddit">>

\* fetch_all_news: the loop over the clients from the i-th on; a client that
\* raises is skipped.
RECURSIVE FetchAllNews(_, _, _)
FetchAllNews(category, w, i) ==
    IF i > Len(Clients) THEN <<>>
    ELSE IF w[Clients[i]] = "raises"
    THEN FetchAllNews(category, w, i + 1)
    ELSE Yielded(category, Clients[i], w[Clients[i]])
         \o FetchAllNews(category, w, i + 1)

\* The result of a task of the pool.
TaskResult(status, articles) == [status |-> status, articles |-> articles]

\* executor.submit(self._fetch_api_news, category)
FetchApiNews(category, w) ==
    IF w.api = "ok" THEN TaskResult("ok", FetchAllNews(category, w, 1))
    ELSE TaskResult(w.api, <<>>)

\* executor.submit(self._fetch_rss_news, category)
FetchRssNews(category, w) ==
    IF w.rss = "yields"
    THEN TaskResult("ok", Yielded(category, "rss", w.rss))
    ELSE TaskResult(w.rss, <<>>)

\* What the sources of one category do during one cycle.
Worlds ==
    { w \in [api : TaskStatuses, hn : ClientOutcomes, reddit : ClientOutcomes,
             rss : {"yields", "raises", "running"}] :
        w.api # "ok" => (w.hn = "yields" /\ w.reddit = "yields") }

\* The futures of fetch_news_concurrent in submission order: for each category
\* the API task, then the RSS task.
RECURSIVE Futures(_, _, _)
Futures(categories, world, i) ==
    IF i > Len(categories) THEN <<>>
    ELSE <<FetchApiNews(categories[i], world[i]), FetchRssNews(categories[i], world[i])>>
         \o Futures(categories, world, i + 1)

\* s back to front.
Reverse(s) == [i \in 1..Len(s) |-> s[Len(s) + 1 - i]]

\* The futures that complete, in the order as_completed yields them.
CompletionOrders == {"submitted", "reversed"}

\* The completion orders that differ for the loop over as_completed: with fewer
\* than two futures that return, every order collects the same list.
OrdersOf(world) ==
    IF \A i \in DOMAIN world : world[i].api = "ok" /\ world[i].rss = "yields"
    THEN CompletionOrders
    ELSE {"submitted"}

\* as_completed(futures, timeout): the completed futures in completion order,
\* and TimeoutError once the deadline elapses with a future still running.
AsCompleted(futures, order) ==
    LET done == SelectSeq(futures, LAMBDA f : f.status # "running")
    IN  [done    |-> IF order = "submitted" THEN done ELSE Reverse(done),
         timeout |-> \E i \in 1..Len(futures) : futures[i].status = "running"]

\* The collecting loop without its try/except: a future whose result() raises
\* ends the loop with that exception.
RECURSIVE CollectUnguarded(_, _, _)
CollectUnguarded(done, i, acc) ==
    IF i > Len(done) THEN acc
    ELSE IF done[i].status = "ok"
    THEN CollectUnguarded(done, i + 1,
             [acc EXCEPT !.all_articles = @ \o done[i].articles,
                         !.sources_count = @ + 1])
    ELSE [acc EXCEPT !.raised = TRUE]

\* The loop that collects future.result() into all_articles; a future that
\* raises is logged and skipped.
RECURSIVE Collect(_, _, _)
Collect(done, i, acc) ==
    IF i > Len(done) THEN acc
    ELSE IF done[i].status = "ok"
    THEN Collect(done, i + 1,
             [acc EXCEPT !.all_articles = @ \o done[i].articles,
                         !.sources_count = @ + 1])
    ELSE Collect(done, i + 1, acc)

\* Python's truth value of what get returned: None and [] are false.
Truthy(value) == ~value.is_none /\ value.articles # <<>>

\* len(set(article.source for article in articles))
TotalSources(articles) == Cardinality({articles[i].source : i \in 1..Len(articles)})

\* set(article.category for article in articles)
CategoriesOf(articles) == {articles[i].category : i \in 1..Len(articles)}

\* The time of the last recorded set of the key, as the call finds it.
PreviousSet(key) ==
    IF key \in DOMAIN set_log
    THEN [recorded |-> TRUE, at |-> set_log[key].at]
    ELSE [recorded |-> FALSE, at |-> 0]

\* DEFAULT_CONFIG.api.timeout_seconds * 2 (20 s), the timeout of as_completed.
NaDeadline == 40

\* How often the clock is advanced in one behaviour of the aggregators.
MaxAggTicks == 2

\* The amounts by which the clock advances between two aggregation calls: one
\* unit, and the cache duration (which is longer than the throttle interval).
AggClockSteps(k) == {1, CacheDuration(k)}

\* The request lists of the callers.
RequestLists == { <<c>> : c \in Categories }

----------------------------------------------------------------------------
(* NewsAggregator.fetch_news_concurrent                                    *)

\* AggregatedNews(articles, last_updated, total_sources, categories)
AggregatedNews(categories, articles, updated, fetched, prev, world, order) ==
    [call |-> "fetch_news_concurrent", categories |-> categories, at |-> now,
     outcome |-> "returned", articles |-> articles, last_updated |-> updated,
     total_sources |-> TotalSources(articles), categories_of |-> CategoriesOf(articles),
     breaking_news_count |-> 0, update_frequency |-> <<0, 1>>,
     fetched |-> fetched, prev |-> prev, world |-> world, order |-> order]

\* The call ends with an exception raised to the caller.
Raised(call, categories, prev, world, order) ==
    [NoResult EXCEPT !.call = call, !.categories = categories, !.at = now,
                     !.outcome = "raised", !.fetched = TRUE, !.prev = prev,
                     !.world = world, !.order = order]

\* fetch_news_concurrent answered from the cache (both early returns).
ReturnCached(categories, cached_articles) ==
    /\ result' = AggregatedNews(categories, cached_articles, last_update, FALSE,
                                PreviousSet(CacheKeyOf(categories)), <<>>, "none")
    /\ UNCHANGED <<cacheVars, set_log, last_update, current_articles>>

\* The body of fetch_news_concurrent between the submission of the tasks and
\* the cache update: the futures are collected as they complete, the collected
\* items are deduplicated, sorted by published_at and truncated.
CollectAndRank(categories, world, order, limit) ==
    LET completed == AsCompleted(Futures(categories, world, 1), order)
        collected == Collect(completed.done, 1,
                         [all_articles |-> <<>>, sources_count |-> 0, raised |-> FALSE])
        unique_articles == SortByPublishedDesc(DeduplicateArticles(collected.all_articles))
    IN  [raised         |-> collected.raised,
         timeout        |-> completed.timeout,
         final_articles |-> Truncate(unique_articles, limit)]

\* CollectAndRank, tabulated over the requests, the behaviours of the sources
\* and the display limits.
Cycles ==
    [categories \in RequestLists |->
        [world \in [1..Len(categories) -> Worlds] |->
            [order \in CompletionOrders |->
                [limit \in DisplayLimits |->
                    CollectAndRank(categories, world, order, limit)]]]]

\* fetch_news_concurrent from the submission of the tasks on.
FetchFromSources(categories, world, order) ==
    LET cache_key == CacheKeyOf(categories)
        cycle == Cycles[categories][world][order][max_articles_display]
        final_articles == cycle.final_articles
        prev == PreviousSet(cache_key)
    IN  IF cycle.raised
        THEN /\ result' = Raised("fetch_news_concurrent", categories, prev, world, order)
             /\ UNCHANGED <<cacheVars, set_log, last_update, current_articles>>
        ELSE IF cycle.timeout
        THEN \* TimeoutError leaves the for loop once the deadline has elapsed
             /\ ticks < MaxAggTicks
             /\ now' = now + NaDeadline
             /\ ticks' = ticks + 1
             /\ result' = Raised("fetch_news_concurrent", categories, prev, world, order)
             /\ UNCHANGED <<kind, cache, last_fetch, set_log, last_update, current_articles>>
        ELSE /\ cache' = CacheAfterSet(cache, cache_key, final_articles, now)
             /\ last_fetch' = LastFetchAfterSet(last_fetch, cache_key, now)
             /\ set_log' = DictSet(set_log, cache_key,
                                   [articles |-> final_articles, at |-> now])
             /\ last_update' = now
             /\ current_articles' = final_articles
             /\ result' = AggregatedNews(categories, final_articles, now, TRUE,
                                         prev, world, order)
             /\ UNCHANGED <<kind, now, ticks>>

\* NewsAggregator.fetch_news_concurrent(categories)
FetchNewsConcurrent(categories) ==
    /\ kind = "NewsCache"
    /\ result = NoResult
    /\ LET cache_key == CacheKeyOf(categories)
           cached_articles == NaGet(cache, cache_key, now)
       IN  IF Truthy(cached_articles) /\ ~NaShouldFetch(last_fetch, cache_key, now)
           THEN ReturnCached(categories, cached_articles.articles)
           ELSE IF Truthy(cached_articles)
           THEN ReturnCached(categories, cached_articles.articles)
           ELSE \E world \in [1..Len(categories) -> Worlds] :
                    \E order \in OrdersOf(world) :
                        FetchFromSources(categories, world, order)
    /\ UNCHANGED <<ret, update_count>>

----------------------------------------------------------------------------
(* RealTimeNewsAggregator.fetch_real_time_news                             *)

\* timedelta(hours=2)
TwoHours == 14400

\* How many upstream cycles the real-time aggregator runs in one behaviour.
MaxUpdates == 3

\* api_articles + rss_articles: both operands are generator objects, which do
\* not support +, so the expression raises TypeError.
GeneratorPlus(api_articles, rss_articles) == [raised |-> TRUE, value |-> <<>>]

\* RealTimeNewsAggregator._fetch_sync_news: the exception handler turns the
\* TypeError of the concatenation into an empty list.
FetchSyncNews(category, w) ==
    LET api_articles == FetchAllNews(category, w, 1)
        rss_articles == Yielded(category, "rss", w.rss)
        all_articles_ == GeneratorPlus(api_articles, rss_articles)
        cutoff_time == now - TwoHours
    IN  IF all_articles_.raised THEN <<>>
        ELSE SelectSeq(all_articles_.value, LAMBDA a : a.published_at > cutoff_time)

\* RealTimeNewsAggregator._fetch_async_news: the result of _fetch_sync_news.
FetchAsyncNews(category, w) == TaskResult("ok", FetchSyncNews(category, w))

\* The worlds in which every source of the category answers.
AnsweringWorlds ==
    { w \in Worlds : w.api = "ok" /\ w.rss = "yields" }

\* results = await asyncio.gather(*tasks, return_exceptions=True) and the loop
\* that extends all_articles with every result that is a list.
RECURSIVE Gather(_, _, _)
Gather(categories, world, i) ==
    IF i > Len(categories) THEN <<>>
    ELSE LET r == FetchAsyncNews(categories[i], world[i])
         IN  (IF r.status = "ok" THEN r.articles ELSE <<>>)
             \o Gather(categories, world, i + 1)

\* sum(1 for article in articles if self._is_breaking_news(article))
BreakingCount(articles) ==
    Cardinality({i \in 1..Len(articles) : Classified[articles[i]].breaking})

\* RealTimeNewsAggregator._create_realtime_response
CreateRealtimeResponse(categories, articles, updated, updates, fetched, prev, world) ==
    LET elapsed_time == now - StartClock
    IN  [call |-> "fetch_real_time_news", categories |-> categories, at |-> now,
         outcome |-> "returned", articles |-> articles, last_updated |-> updated,
         total_sources |-> TotalSources(articles),
         categories_of |-> CategoriesOf(articles),
         breaking_news_count |-> BreakingCount(articles),
         update_frequency |-> IF elapsed_time > 0 THEN <<updates, elapsed_time>>
                              ELSE <<0, 1>>,
         fetched |-> fetched, prev |-> prev, world |-> world, order |-> "submitted"]

\* RealTimeNewsAggregator.fetch_real_time_news(categories)
FetchRealTimeNews(categories) ==
    /\ kind = "RealTimeCache"
    /\ result = NoResult
    /\ LET cache_key == CacheKeyOf(categories)
           cached_articles == RtGet(cache, cache_key, now)
           prev == PreviousSet(cache_key)
       IN  IF ~RtShouldFetch(last_fetch, cache_key, now) /\ Truthy(cached_articles)
           THEN /\ result' = CreateRealtimeResponse(categories, cached_articles.articles,
                                 last_update, update_count, FALSE, prev, <<>>)
                /\ UNCHANGED <<cacheVars, set_log, last_update, update_count>>
           ELSE \E world \in [1..Len(categories) -> AnsweringWorlds] :
                  LET all_articles_ == Gather(categories, world, 1)
                      unique_articles ==
                          DeduplicateAndPrioritize(all_articles_, max_articles_display)
                  IN  /\ update_count < MaxUpdates
                      /\ cache' = CacheAfterSet(cache, cache_key, unique_articles, now)
                      /\ last_fetch' = LastFetchAfterSet(last_fetch, cache_key, now)
                      /\ set_log' = DictSet(set_log, cache_key,
                                            [articles |-> unique_articles, at |-> now])
                      /\ update_count' = update_count + 1
                      /\ last_update' = now
                      /\ result' = CreateRealtimeResponse(categories, unique_articles,
                                       now, update_count + 1, TRUE, prev, world)
                      /\ UNCHANGED <<kind, now, ticks>>
    /\ UNCHANGED <<ret, current_articles>>

\* The caller has taken what its call returned or raised; its next call can
\* begin (the calls of one caller do not overlap).
Return ==
    /\ result # NoResult
    /\ result' = NoResult
    /\ UNCHANGED <<cacheVars, ret, set_log, last_update, current_articles, update_count>>

AggInit ==
    /\ kind \in CacheKinds
    /\ CacheConstructed
    /\ AggregatorConstructed
    /\ max_articles_display \in DisplayLimits
    /\ DedupIdle
    /\ AdaptersIdle
    /\ LoopsIdle
    /\ ThreadsIdle
    /\ CallersIdle

AggNext ==
    \/ Tick(AggClockSteps(kind), MaxAggTicks) /\ UNCHANGED <<requestVars, dedupVars, adapterVars, loopVars, threadVars>>
    \/ \E categories \in RequestLists : FetchNewsConcurrent(categories) /\ UNCHANGED <<requestVars, dedupVars, adapterVars, loopVars, threadVars>>
    \/ \E categories \in RequestLists : FetchRealTimeNews(categories) /\ UNCHANGED <<requestVars, dedupVars, adapterVars, loopVars, threadVars>>
    \/ Return /\ UNCHANGED <<requestVars, dedupVars, adapterVars, loopVars, threadVars>>


----------------------------------------------------------------------------
(* The source adapters: data/api.py, data/rss.py, src/core/fetcher.py.     *)

\* The adapters whose fetch operation is modelled.
Adapters ==
    {"NewsAPIClient", "HackerNewsClient", "RedditNewsClient", "GuardianAPIClient",
     "RSSFeedManager", "FeedFetcher"}

\* The ways the network call of an adapter ends without a payload.
TransportFailures == {"connection_error", "timeout", "http_error"}

\* The fields an entry of a payload can carry; "data" is the object that wraps
\* the fields of a Reddit post, "bad_date" a date field that is present but of
\* a shape the date conversion rejects.
EntryFields == {"title", "description", "url", "data", "bad_date"}

\* An entry of a payload is the set of its fields that are present.
Entries == SUBSET EntryFields

\* The largest number of entries of a payload.
MaxEntries == 2

\* The payloads: `top` says that the top-level key of the document is present
\* ('articles', 'data', 'response', the list of story ids, the feed element),
\* `list` that the key of the entry list below it is ('children', 'results').
Payloads ==
    { p \in [kind : {"payload"}, top : BOOLEAN, list : BOOLEAN,
             entries : SeqUpTo(Entries, MaxEntries)] :
        /\ ~p.top => ~p.list
        /\ ~p.list => p.entries = <<>> }

\* Every outcome of the network call.
Responses ==
    [kind : TransportFailures, top : {FALSE}, list : {FALSE}, entries : {<<>>}]
        \cup Payloads

\* APIClient._make_request: the parsed document, or None after a
\* RequestException (connection error, timeout, raise_for_status).
MakeRequest(response) ==
    IF response.kind \in TransportFailures
    THEN [is_none |-> TRUE, top |-> FALSE, list |-> FALSE, entries |-> <<>>]
    ELSE [is_none |-> FALSE, top |-> response.top, list |-> response.list,
          entries |-> response.entries]

\* The fetch operation returned a list / raised to its caller.
ReturnedItems(items) == [outcome |-> "returned", items |-> items]
RaisedToCaller == [outcome |-> "raised", items |-> <<>>]

\* The NewsArticle built from the i-th entry; a missing title is replaced by
\* 'No title'.
ArticleOf(i, entry) == [entry |-> i, titled |-> "title" \in entry]

\* The item is put in front of what the rest of the loop gives.
Append_(item, rest) ==
    IF rest.outcome = "raised" THEN rest ELSE ReturnedItems(<<item>> \o rest.items)

\* The list comprehension of NewsAPIClient.fetch_news from the i-th entry on:
\* entries without title are filtered out, article['description'] and
\* article['url'] raise KeyError when the field is missing, parser.parse
\* raises on a date it cannot read.
RECURSIVE NewsApiArticles(_, _)
NewsApiArticles(entries, i) ==
    IF i > Len(entries) THEN ReturnedItems(<<>>)
    ELSE IF "title" \notin entries[i] THEN NewsApiArticles(entries, i + 1)
    ELSE IF ~({"description", "url"} \subseteq entries[i]) THEN RaisedToCaller
    ELSE IF "bad_date" \in entries[i] THEN RaisedToCaller
    ELSE Append_(ArticleOf(i, entries[i]), NewsApiArticles(entries, i + 1))

\* NewsAPIClient.fetch_news, with an API key configured.
NewsApiFetchNews(response) ==
    LET data == MakeRequest(response)
    IN  IF data.is_none \/ ~data.top THEN ReturnedItems(<<>>)
        ELSE NewsApiArticles(data.entries, 1)

\* The loop of HackerNewsClient.fetch_news over the stories: a story without
\* url is skipped, every other field is read with get, datetime.fromtimestamp
\* raises on a time it cannot read.
RECURSIVE HackerNewsArticles(_, _)
HackerNewsArticles(entries, i) ==
    IF i > Len(entries) THEN ReturnedItems(<<>>)
    ELSE IF "url" \notin entries[i] THEN HackerNewsArticles(entries, i + 1)
    ELSE IF "bad_date" \in entries[i] THEN RaisedToCaller
    ELSE Append_(ArticleOf(i, entries[i]), HackerNewsArticles(entries, i + 1))

\* HackerNewsClient.fetch_news
HackerNewsFetchNews(response) ==
    LET story_ids == MakeRequest(response)
    IN  IF story_ids.is_none \/ ~story_ids.top THEN ReturnedItems(<<>>)
        ELSE HackerNewsArticles(story_ids.entries, 1)

\* The loop of RedditNewsClient.fetch_news over data['data']['children']:
\* post['data'] raises KeyError when the post has no 'data'.
RECURSIVE RedditArticles(_, _)
RedditArticles(entries, i) ==
    IF i > Len(entries) THEN ReturnedItems(<<>>)
    ELSE IF "data" \notin entries[i] THEN RaisedToCaller
    ELSE IF "url" \notin entries[i] THEN RedditArticles(entries, i + 1)
    ELSE IF "bad_date" \in entries[i] THEN RaisedToCaller
    ELSE Append_(ArticleOf(i, entries[i]), RedditArticles(entries, i + 1))

\* RedditNewsClient.fetch_news
RedditFetchNews(response) ==
    LET data == MakeRequest(response)
    IN  IF data.is_none \/ ~data.top THEN ReturnedItems(<<>>)
        ELSE IF ~data.list THEN RaisedToCaller
        ELSE RedditArticles(data.entries, 1)

\* The loop over the entries of an adapter that reads every field with get
\* and converts the date outside any handler of its own.
RECURSIVE EveryEntry(_, _)
EveryEntry(entries, i) ==
    IF i > Len(entries) THEN ReturnedItems(<<>>)
    ELSE IF "bad_date" \in entries[i] THEN RaisedToCaller
    ELSE Append_(ArticleOf(i, entries[i]), EveryEntry(entries, i + 1))

\* The loop of FeedFetcher.fetch_source: _parse_entry returns None for an
\* entry whose conversion raises, and the loop leaves that entry out.
RECURSIVE ParseEntries(_, _)
ParseEntries(entries, i) ==
    IF i > Len(entries) THEN ReturnedItems(<<>>)
    ELSE IF "bad_date" \in entries[i] THEN ParseEntries(entries, i + 1)
    ELSE Append_(ArticleOf(i, entries[i]), ParseEntries(entries, i + 1))

\* GuardianAPIClient.fetch_news
GuardianFetchNews(response) ==
    LET data == MakeRequest(response)
    IN  IF data.is_none \/ ~data.top THEN ReturnedItems(<<>>)
        ELSE IF ~data.list THEN ReturnedItems(<<>>)
        ELSE EveryEntry(data.entries, 1)

\* What feedparser.parse gives as entries: none unless a feed document came.
ParsedEntries(response) ==
    IF response.kind = "payload" /\ response.top THEN response.entries ELSE <<>>

\* The whole body runs inside try ... except Exception: return [].
Guarded(outcome) ==
    IF outcome.outcome = "raised" THEN ReturnedItems(<<>>) ELSE outcome

\* RSSFeedManager.fetch_from_feed
FetchFromFeed(response) == Guarded(EveryEntry(ParsedEntries(response), 1))

\* FeedFetcher.fetch_source
FetchSource(response) == Guarded(ParseEntries(ParsedEntries(response), 1))

\* The fetch operation of `adapter` is called, its network call ends with
\* `response` and the operation with `outcome`; one call is observed.
Fetch(adapter, response, outcome) ==
    /\ adapter_ret = NoFetch
    /\ adapter_ret' = [adapter |-> adapter, response |-> response,
                       outcome |-> outcome.outcome, items |-> outcome.items]
    /\ UNCHANGED <<requestVars, dedupVars, cacheVars, callVars, aggVars, loopVars, threadVars>>

CallNewsApiFetchNews ==
    \E r \in Responses : Fetch("NewsAPIClient", r, NewsApiFetchNews(r))

CallHackerNewsFetchNews ==
    \E r \in Responses : Fetch("HackerNewsClient", r, HackerNewsFetchNews(r))

CallRedditFetchNews ==
    \E r \in Responses : Fetch("RedditNewsClient", r, RedditFetchNews(r))

CallGuardianFetchNews ==
    \E r \in Responses : Fetch("GuardianAPIClient", r, GuardianFetchNews(r))

CallFetchFromFeed ==
    \E r \in Responses : Fetch("RSSFeedManager", r, FetchFromFeed(r))

CallFetchSource ==
    \E r \in Responses : Fetch("FeedFetcher", r, FetchSource(r))

AdapterInit ==
    /\ kind = "NewsCache"
    /\ CacheConstructed
    /\ AggregatorConstructed
    /\ max_articles_display = DefaultMaxArticlesDisplay
    /\ DedupIdle
    /\ AdaptersIdle
    /\ LoopsIdle
    /\ ThreadsIdle
    /\ CallersIdle

AdapterNext ==
    \/ CallNewsApiFetchNews
    \/ CallHackerNewsFetchNews
    \/ CallRedditFetchNews
    \/ CallGuardianFetchNews
    \/ CallFetchFromFeed
    \/ CallFetchSource

----------------------------------------------------------------------------
(* The refresh loops: the worker of start_streaming, display_news_live,    *)
(* display_news_loop and StreamingNewsApp.run.  One loop is followed; its  *)
(* fetches, its consumer and its error report may each return or raise.    *)

LoopKinds == {"stream_worker", "display_news_live", "display_news_loop", "StreamingNewsApp"}

\* The loops that fetch inside their own thread of control.
SyncLoops == {"stream_worker", "display_news_live", "display_news_loop"}

\* The loops that run in the main thread and receive Ctrl+C as KeyboardInterrupt.
InterruptedLoops == {"display_news_live", "display_news_loop"}

\* The titles a fetch may deliver.
TitleIds == {"a", "b"}

MaxCycleItems == 2

\* The item lists a fetch may return, the empty list included.
CycleResults == SeqUpTo(TitleIds, MaxCycleItems)

MaxInFlight == 2

\* The change test of display_news_live: no items shown yet, another count, or
\* another set of titles.
ContentChanged(current, new) ==
    \/ current = <<>>
    \/ Len(new) # Len(current)
    \/ Range(current) # Range(new)

\* The record of a completed cycle with result `new`.
Completed(new, notified) ==
    [previous |-> last_cycle.result, result |-> new, notified |-> notified,
     completed |-> TRUE, compared |-> last_cycle.completed]

\* A fetch is started: a thread is now inside the upstream call.
Started ==
    /\ in_flight < MaxInFlight
    /\ in_flight' = in_flight + 1
    /\ after_signal' = (after_signal \/ signalled)

\* The loop ends by an exception that leaves the function.
EndsByException ==
    /\ pc' = "stopped"
    /\ ended_by' = "exception"

\* The initial load of display_news_live and of StreamingNewsApp.run, made
\* before the loop is entered.
InitialFetch ==
    /\ loop_kind \in {"display_news_live", "StreamingNewsApp"}
    /\ pc = "first"
    /\ Started
    /\ pc' = "first_fetching"
    /\ UNCHANGED <<loop_kind, running, fetch_task, shown, pending, last_cycle, signalled,
                   ended_by>>

\* get_news_func() of the initial load of display_news_live returns or raises;
\* the call is outside the try block of the loop.
LiveInitialFetchDone ==
    /\ loop_kind = "display_news_live"
    /\ pc = "first_fetching"
    /\ in_flight' = in_flight - 1
    /\ \/ \E new \in CycleResults :
            /\ shown' = new
            /\ last_cycle' = Completed(new, TRUE)
            /\ pc' = "top"
            /\ UNCHANGED ended_by
       \/ /\ EndsByException
          /\ UNCHANGED <<shown, last_cycle>>
    /\ UNCHANGED <<loop_kind, running, fetch_task, pending, signalled, after_signal>>

\* The initial load of StreamingNewsApp.run: _fetch_articles_async turns every
\* failure into the empty list; terminal.add_articles may raise.
AppInitialFetchDone ==
    /\ loop_kind = "StreamingNewsApp"
    /\ pc = "first_fetching"
    /\ in_flight' = in_flight - 1
    /\ \/ \E new \in CycleResults :
            /\ shown' = new
            /\ last_cycle' = Completed(new, new # <<>>)
            /\ pc' = "top"
            /\ UNCHANGED ended_by
       \/ /\ EndsByException
          /\ UNCHANGED <<shown, last_cycle>>
    /\ UNCHANGED <<loop_kind, running, fetch_task, pending, signalled, after_signal>>

\* A loop that fetches in its own thread starts the fetch of a cycle.
StartFetch ==
    /\ loop_kind \in SyncLoops
    /\ pc = "top"
    /\ Started
    /\ pc' = "fetching"
    /\ UNCHANGED <<loop_kind, running, fetch_task, shown, pending, last_cycle, signalled,
                   ended_by>>

\* The fetch of the cycle returns its items.
FetchReturns ==
    /\ loop_kind \in SyncLoops
    /\ pc = "fetching"
    /\ in_flight' = in_flight - 1
    /\ \E new \in CycleResults : pending' = new
    /\ pc' = "fetched"
    /\ UNCHANGED <<loop_kind, running, fetch_task, shown, last_cycle, signalled,
                   after_signal, ended_by>>

\* The fetch of the cycle raises: control passes to the except block.
FetchRaises ==
    /\ loop_kind \in SyncLoops
    /\ pc = "fetching"
    /\ in_flight' = in_flight - 1
    /\ pc' = "handler"
    /\ UNCHANGED <<loop_kind, running, fetch_task, shown, pending, last_cycle, signalled,
                   after_signal, ended_by>>

\* stream_worker hands the result to the callback, appends it to the queue
\* and sleeps; a raising callback passes control to the except block.
WorkerCallback ==
    /\ loop_kind = "stream_worker"
    /\ pc = "fetched"
    /\ last_cycle' = Completed(pending, TRUE)
    /\ shown' = pending
    /\ pc' \in {"top", "handler"}
    /\ UNCHANGED <<loop_kind, running, fetch_task, in_flight, pending, signalled,
                   after_signal, ended_by>>

\* display_news_live compares the result with the items shown, takes it over
\* when the test says it changed, and updates the display.
LiveUpdate ==
    /\ loop_kind = "display_news_live"
    /\ pc = "fetched"
    /\ LET content_changed == ContentChanged(shown, pending)
       IN  /\ shown' = IF content_changed THEN pending ELSE shown
           /\ last_cycle' = Completed(pending, content_changed)
    /\ pc' \in {"top", "handler"}
    /\ UNCHANGED <<loop_kind, running, fetch_task, in_flight, pending, signalled,
                   after_signal, ended_by>>

\* display_news_loop displays the result of every cycle.
SimpleDisplay ==
    /\ loop_kind = "display_news_loop"
    /\ pc = "fetched"
    /\ shown' = pending
    /\ last_cycle' = Completed(pending, TRUE)
    /\ pc' \in {"top", "handler"}
    /\ UNCHANGED <<loop_kind, running, fetch_task, in_flight, pending, signalled,
                   after_signal, ended_by>>

\* The except block of the loop: the error is reported, the loop sleeps and
\* goes on.  The reports of the two display loops write to the terminal and
\* may raise themselves; nothing catches that inside the loop.
Handler ==
    /\ pc = "handler"
    /\ \/ /\ pc' = "top"
          /\ UNCHANGED ended_by
       \/ /\ loop_kind \in InterruptedLoops
          /\ EndsByException
    /\ UNCHANGED <<loop_kind, running, fetch_task, in_flight, shown, pending, last_cycle,
                   signalled, after_signal>>

\* The test at the head of the loop of StreamingNewsApp.run: while self.running.
\* Leaving the loop runs executor.shutdown(wait=False).
AppTop ==
    /\ loop_kind = "StreamingNewsApp"
    /\ pc = "top"
    /\ IF running
       THEN pc' = "create" /\ UNCHANGED ended_by
       ELSE pc' = "stopped" /\ ended_by' = "cancel"
    /\ UNCHANGED <<loop_kind, running, fetch_task, in_flight, shown, pending, last_cycle,
                   signalled, after_signal>>

\* The condition on fetch_task under which run creates a new task.
AppMayCreateAlways(task) == TRUE

AppMayCreate(task) == task.state \in {"none", "done"}

\* run creates the fetch task of a cycle when the fetch interval has elapsed
\* and no task is outstanding.
AppCreate ==
    /\ loop_kind = "StreamingNewsApp"
    /\ pc = "create"
    /\ \/ /\ AppMayCreate(fetch_task)
          /\ Started
          /\ fetch_task' = [state |-> "running", articles |-> <<>>]
       \/ UNCHANGED <<fetch_task, in_flight, after_signal>>
    /\ pc' = "process"
    /\ UNCHANGED <<loop_kind, running, shown, pending, last_cycle, signalled, ended_by>>

\* The executor thread of the fetch task finishes: _fetch_new_articles_sync
\* returns its items, the empty list on a failure.
TaskCompletes ==
    /\ loop_kind = "StreamingNewsApp"
    /\ fetch_task.state = "running"
    /\ \E new \in CycleResults : fetch_task' = [state |-> "done", articles |-> new]
    /\ in_flight' = in_flight - 1
    /\ UNCHANGED <<loop_kind, pc, running, shown, pending, last_cycle, signalled,
                   after_signal, ended_by>>

\* run takes the result of a finished task, adds the items to the terminal
\* when there are any, and clears fetch_task.
AppProcess ==
    /\ loop_kind = "StreamingNewsApp"
    /\ pc = "process"
    /\ IF fetch_task.state = "done"
       THEN /\ fetch_task' = NoTask
            /\ last_cycle' = Completed(fetch_task.articles, fetch_task.articles # <<>>)
            /\ shown' = IF fetch_task.articles # <<>> THEN fetch_task.articles ELSE shown
       ELSE UNCHANGED <<fetch_task, last_cycle, shown>>
    /\ pc' = "render"
    /\ UNCHANGED <<loop_kind, running, in_flight, pending, signalled, after_signal,
                   ended_by>>

\* run updates the display and sleeps; a raising update passes control to the
\* except block of the loop.
AppRender ==
    /\ loop_kind = "StreamingNewsApp"
    /\ pc = "render"
    /\ pc' \in {"top", "handler"}
    /\ UNCHANGED <<loop_kind, running, fetch_task, in_flight, shown, pending, last_cycle,
                   signalled, after_signal, ended_by>>

\* A shutdown signal is delivered.  The display loops receive KeyboardInterrupt
\* and leave their loop at once; _signal_handler of StreamingNewsApp clears
\* running; the worker thread of start_streaming has no handler and no flag.
Signal ==
    /\ ~signalled
    /\ pc # "stopped"
    /\ signalled' = TRUE
    /\ IF loop_kind \in InterruptedLoops
       THEN /\ pc' = "stopped"
            /\ ended_by' = "cancel"
            /\ in_flight' = 0
            /\ UNCHANGED running
       ELSE /\ running' = (loop_kind # "StreamingNewsApp")
            /\ UNCHANGED <<pc, ended_by, in_flight>>
    /\ UNCHANGED <<loop_kind, fetch_task, shown, pending, last_cycle, after_signal>>

\* The steps the loop takes by itself.
LoopStep ==
    \/ InitialFetch
    \/ LiveInitialFetchDone
    \/ AppInitialFetchDone
    \/ StartFetch
    \/ FetchReturns
    \/ FetchRaises
    \/ WorkerCallback
    \/ LiveUpdate
    \/ SimpleDisplay
    \/ Handler
    \/ AppTop
    \/ AppCreate
    \/ TaskCompletes
    \/ AppProcess
    \/ AppRender

LoopInit ==
    /\ kind = "RealTimeCache"
    /\ CacheConstructed
    /\ AggregatorConstructed
    /\ max_articles_display = DefaultMaxArticlesDisplay
    /\ DedupIdle
    /\ AdaptersIdle
    /\ ThreadsIdle
    /\ CallersIdle
    /\ loop_kind \in LoopKinds
    /\ pc = IF loop_kind \in {"display_news_live", "StreamingNewsApp"} THEN "first" ELSE "top"
    /\ running = TRUE
    /\ fetch_task = NoTask
    /\ in_flight = 0
    /\ shown = <<>>
    /\ pending = <<>>
    /\ last_cycle = NoCycle
    /\ signalled = FALSE
    /\ after_signal = FALSE
    /\ ended_by = "none"

\* The thread of the loop takes a step.
LoopRuns ==
    LoopStep /\ UNCHANGED <<requestVars, dedupVars, cacheVars, callVars, aggVars, adapterVars, threadVars>>

LoopNext ==
    \/ LoopRuns
    \/ Signal /\ UNCHANGED <<requestVars, dedupVars, cacheVars, callVars, aggVars, adapterVars, threadVars>>

----------------------------------------------------------------------------
(* The caches under two threads: one inside set(key, articles), statement  *)
(* by statement, and one calling get and should_fetch.  RealTimeCache runs *)
(* the body of each operation under self._lock; NewsCache has no lock.     *)

MaxThreadTicks == 2

MaxSets == 2

\* The call of set that last wrote the entry of `written` for the key: 0 when
\* no call has.
WrittenBy(written, key) == IF key \in DOMAIN written THEN written[key] ELSE 0

\* `with self._lock` of RealTimeCache: the operation may start when no other
\* thread holds the lock.  NewsCache takes no lock.
MayEnter == kind = "RealTimeCache" => lock = "free"

\* set enters: RealTimeCache acquires the lock.
SetEnter ==
    /\ writer.at = "idle"
    /\ writer.sets < MaxSets
    /\ MayEnter
    /\ \E key \in Keys :
            writer' = [writer EXCEPT !.at = "entered", !.key = key, !.sets = @ + 1]
    /\ lock' = IF kind = "RealTimeCache" THEN "writer" ELSE lock
    /\ UNCHANGED <<cacheVars, callVars, aggVars, reader>>

\* The first statement of set: self._cache[key] = (articles, datetime.now()).
SetContent ==
    /\ writer.at = "entered"
    /\ \E articles \in CachedLists :
            cache' = CacheAfterSet(cache, writer.key, articles, now)
    /\ writer' = [writer EXCEPT !.at = "content",
                                 !.items_of = DictSet(@, writer.key, writer.sets)]
    /\ UNCHANGED <<kind, now, ticks, last_fetch, callVars, aggVars, lock, reader>>

\* The second statement of set, after which the lock is released:
\* self._last_fetch_times[key] = time.time() / self._last_api_call[key] = datetime.now().
SetTimestamp ==
    /\ writer.at = "content"
    /\ last_fetch' = LastFetchAfterSet(last_fetch, writer.key, now)
    /\ writer' = [writer EXCEPT !.at = "idle", !.key = <<>>,
                                 !.stamp_of = DictSet(@, writer.key, writer.sets)]
    /\ lock' = "free"
    /\ UNCHANGED <<kind, now, ticks, cache, callVars, aggVars, reader>>

\* The reading thread calls get(key) and is handed the items of an entry.
ReadGet(key) ==
    /\ MayEnter
    /\ key \in DOMAIN cache
    /\ ~Get(kind, cache, key, now).is_none
    /\ reader' = IF reader.first = "should_fetch" /\ reader.key = key /\ ~reader.complete
                 THEN [reader EXCEPT !.items_of = WrittenBy(writer.items_of, key),
                                     !.complete = TRUE]
                 ELSE [first |-> "get", key |-> key,
                       items_of |-> WrittenBy(writer.items_of, key),
                       stamp_of |-> 0, complete |-> FALSE]
    /\ UNCHANGED <<cacheVars, callVars, aggVars, lock, writer>>

\* The reading thread calls should_fetch(key), which reads the key's throttle
\* timestamp.
ReadShouldFetch(key) ==
    /\ MayEnter
    /\ reader' = IF reader.first = "get" /\ reader.key = key /\ ~reader.complete
                 THEN [reader EXCEPT !.stamp_of = WrittenBy(writer.stamp_of, key),
                                     !.complete = TRUE]
                 ELSE [first |-> "should_fetch", key |-> key, items_of |-> 0,
                       stamp_of |-> WrittenBy(writer.stamp_of, key), complete |-> FALSE]
    /\ UNCHANGED <<cacheVars, callVars, aggVars, lock, writer>>

ThreadInit ==
    /\ kind \in CacheKinds
    /\ CacheConstructed
    /\ AggregatorConstructed
    /\ max_articles_display = DefaultMaxArticlesDisplay
    /\ DedupIdle
    /\ AdaptersIdle
    /\ LoopsIdle
    /\ ThreadsIdle
    /\ CallersIdle

ThreadNext ==
    \/ Tick({1}, MaxThreadTicks) /\ UNCHANGED <<requestVars, dedupVars, adapterVars, loopVars, threadVars>>
    \/ SetEnter /\ UNCHANGED <<requestVars, dedupVars, adapterVars, loopVars>>
    \/ SetContent /\ UNCHANGED <<requestVars, dedupVars, adapterVars, loopVars>>
    \/ SetTimestamp /\ UNCHANGED <<requestVars, dedupVars, adapterVars, loopVars>>
    \/ \E key \in Keys : ReadGet(key) /\ UNCHANGED <<requestVars, dedupVars, adapterVars, loopVars>>
    \/ \E key \in Keys : ReadShouldFetch(key) /\ UNCHANGED <<requestVars, dedupVars, adapterVars, loopVars>>

----------------------------------------------------------------------------
(* The aggregation calls together with direct reads of their cache.        *)

\* The caller has taken what its cache call returned; the calls of one
\* caller do not overlap.
ReadReturn ==
    /\ ret # NoCall
    /\ ret' = NoCall
    /\ UNCHANGED <<cacheVars, set_log, aggVars>>

\* No call of the caller is under way.
CallerIdle == ret = NoCall /\ result = NoResult

FrameNext ==
    \/ Tick(AggClockSteps(kind), MaxAggTicks)
            /\ UNCHANGED <<requestVars, dedupVars, adapterVars, loopVars, threadVars>>
    \/ \E categories \in RequestLists : CallerIdle /\ FetchNewsConcurrent(categories)
            /\ UNCHANGED <<requestVars, dedupVars, adapterVars, loopVars, threadVars>>
    \/ \E categories \in RequestLists : CallerIdle /\ FetchRealTimeNews(categories)
            /\ UNCHANGED <<requestVars, dedupVars, adapterVars, loopVars, threadVars>>
    \/ Return /\ UNCHANGED <<requestVars, dedupVars, adapterVars, loopVars, threadVars>>
    \/ \E key \in Keys : CallerIdle /\ GetCall(key)
            /\ UNCHANGED <<requestVars, dedupVars, adapterVars, loopVars, threadVars>>
    \/ \E key \in Keys : CallerIdle /\ ShouldFetchCall(key)
            /\ UNCHANGED <<requestVars, dedupVars, adapterVars, loopVars, threadVars>>
    \/ ReadReturn /\ UNCHANGED <<requestVars, dedupVars, adapterVars, loopVars, threadVars>>

----------------------------------------------------------------------------
(* The caches under a wall clock that may be set back between two calls.   *)

\* The amounts by which the clock is set back: one unit, and the throttle
\* interval.
SkewSteps(k) == {1, MinInterval(k)}

\* time.time() / datetime.now() read the wall clock, which an adjustment
\* (NTP, a manual change) may move backwards.
ClockSetBack(steps, max_ticks) ==
    /\ ticks < max_ticks
    /\ \E d \in steps : now' = now - d
    /\ ticks' = ticks + 1
    /\ ret' = NoCall
    /\ result' = NoResult
    /\ UNCHANGED <<kind, cache, last_fetch, set_log>>
    /\ UNCHANGED <<last_update, current_articles, update_count>>

SkewNext ==
    \/ CacheNext
    \/ ClockSetBack(SkewSteps(kind), MaxTicks)
            /\ UNCHANGED <<requestVars, dedupVars, adapterVars, loopVars, threadVars>>

----------------------------------------------------------------------------
(* The cache key of a request.                                             *)

\* How many categories one request list holds at most.
MaxCategories == 3

\* The category lists a caller may pass: every order, every repetition.
CategoryLists == UNION { [1..n -> Categories] : n \in 1..MaxCategories }

\* cache_key = f"..._{'-'.join(sorted(categories))}" for two request lists.
MakeCacheKeys ==
    /\ ~requests.keyed
    /\ requests' = [requests EXCEPT !.keyed = TRUE,
                                    !.first_key = CacheKeyOf(requests.first),
                                    !.second_key = CacheKeyOf(requests.second)]
    /\ UNCHANGED <<callers, dedupVars, cacheVars, callVars, aggVars, adapterVars, loopVars,
                   threadVars>>

KeyInit ==
    /\ kind = "RealTimeCache"
    /\ CacheConstructed
    /\ AggregatorConstructed
    /\ max_articles_display = DefaultMaxArticlesDisplay
    /\ DedupIdle
    /\ AdaptersIdle
    /\ LoopsIdle
    /\ ThreadsIdle
    /\ callers = [c \in Callers |-> Outside]
    /\ \E first \in CategoryLists, second \in CategoryLists :
           requests = [NoRequests EXCEPT !.first = first, !.second = second]

KeyNext == MakeCacheKeys

----------------------------------------------------------------------------
(* Two callers inside RealTimeNewsAggregator.fetch_real_time_news.  The    *)
(* coroutine gives up control at `async with aiohttp.ClientSession()` and  *)
(* at `await asyncio.gather(...)`; the worker thread of start_streaming    *)
(* runs it on a loop of its own.  Each cache operation holds the lock of   *)
(* the cache for its own duration only.                                    *)

\* How often the clock is advanced while callers are inside.
MaxRaceTicks == 2

\* How many calls one caller makes.
MaxCalls == 2

\* The request of the callers: the same category set.
RaceRequest == <<"general">>

\* cache_key = ...; if not self.cache.should_fetch(cache_key): cached_articles =
\* self.cache.get(cache_key); if cached_articles: return ...  Otherwise the
\* caller goes on to the session and the gather.
CallerChecks(c) ==
    /\ callers[c].at = "outside"
    /\ callers[c].calls < MaxCalls
    /\ LET cache_key == CacheKeyOf(RaceRequest)
           cached    == RtGet(cache, cache_key, now)
           answered  == /\ ~RtShouldFetch(last_fetch, cache_key, now)
                        /\ ~cached.is_none
                        /\ cached.articles # <<>>
       IN  callers' = [callers EXCEPT ![c].calls = @ + 1,
                                      ![c].at = IF answered THEN "outside" ELSE "gathering"]
    /\ UNCHANGED <<cacheVars, callVars, aggVars>>

\* results = await asyncio.gather(*tasks, return_exceptions=True);
\* unique_articles = self._deduplicate_and_prioritize(all_articles)
CallerGathers(c) ==
    /\ callers[c].at = "gathering"
    /\ \E world \in [1..Len(RaceRequest) -> AnsweringWorlds] :
           LET all_articles_ == Gather(RaceRequest, world, 1)
           IN  callers' = [callers EXCEPT
                              ![c].at = "gathered",
                              ![c].articles =
                                  DeduplicateAndPrioritize(all_articles_, max_articles_display),
                              ![c].fetched = Append(@, now)]
    /\ UNCHANGED <<cacheVars, callVars, aggVars>>

\* self.cache.set(cache_key, unique_articles); self._update_count += 1;
\* self._last_update = datetime.now(); return ...
CallerSets(c) ==
    /\ callers[c].at = "gathered"
    /\ LET cache_key == CacheKeyOf(RaceRequest)
       IN  /\ cache' = CacheAfterSet(cache, cache_key, callers[c].articles, now)
           /\ last_fetch' = LastFetchAfterSet(last_fetch, cache_key, now)
           /\ set_log' = DictSet(set_log, cache_key,
                                 [articles |-> callers[c].articles, at |-> now])
    /\ update_count' = update_count + 1
    /\ last_update' = now
    /\ callers' = [callers EXCEPT ![c].at = "outside", ![c].articles = <<>>]
    /\ UNCHANGED <<kind, now, ticks, ret, current_articles, result>>

RaceInit ==
    /\ kind = "RealTimeCache"
    /\ CacheConstructed
    /\ AggregatorConstructed
    /\ max_articles_display = DefaultMaxArticlesDisplay
    /\ DedupIdle
    /\ AdaptersIdle
    /\ LoopsIdle
    /\ ThreadsIdle
    /\ CallersIdle

RaceNext ==
    \/ Tick({RtMinFetchInterval}, MaxRaceTicks)
            /\ UNCHANGED <<requestVars, dedupVars, adapterVars, loopVars, threadVars>>
    \/ \E c \in Callers : CallerChecks(c)
            /\ UNCHANGED <<requests, dedupVars, adapterVars, loopVars, threadVars>>
    \/ \E c \in Callers : CallerGathers(c)
            /\ UNCHANGED <<requests, dedupVars, adapterVars, loopVars, threadVars>>
    \/ \E c \in Callers : CallerSets(c)
            /\ UNCHANGED <<requests, dedupVars, adapterVars, loopVars, threadVars>>

----------------------------------------------------------------------------
(* The specifications.                                                     *)

DedupInit ==
    /\ kind = "RealTimeCache"
    /\ CacheConstructed
    /\ AggregatorConstructed
    /\ all_articles \in SeqUpTo(ArticlePool, MaxInput)
    /\ max_articles_display \in DisplayLimits
    /\ prioritized = NotCalled
    /\ unique = NotCalled
    /\ AdaptersIdle
    /\ LoopsIdle
    /\ ThreadsIdle
    /\ CallersIdle

DedupNext == CallDeduplicateAndPrioritize \/ CallDeduplicateArticles

vars == <<dedupVars, cacheVars, callVars, aggVars, adapterVars, loopVars, threadVars,
          requestVars>>

SpecDedup == DedupInit /\ [][DedupNext]_vars

SpecCache == CacheInit /\ [][CacheNext]_vars

SpecAgg == AggInit /\ [][AggNext]_vars

SpecAdapter == AdapterInit /\ [][AdapterNext]_vars

SpecFrame == AggInit /\ [][FrameNext]_vars

SpecSkew == CacheInit /\ [][SkewNext]_vars

SpecThread == ThreadInit /\ [][ThreadNext]_vars

SpecKey == KeyInit /\ [][KeyNext]_vars

SpecRace == RaceInit /\ [][RaceNext]_vars

SpecLoop == LoopInit /\ [][LoopNext]_vars

\* The scheduler runs the thread of the loop whenever it can take a step.
SpecLoopFair == SpecLoop /\ WF_vars(LoopRuns)

----------------------------------------------------------------------------
(* Properties of the dedup and ranking step (SpecDedup).                   *)

\* The normalized title of the specification: case-folded and trimmed.
NormalizedTitle == [a \in AllArticles |-> Strip(Lower(a.title))]

\* No two items of s have the same normalized title.
NoTwoWithSameTitle(s) ==
    \A i, j \in 1..Len(s) : i # j => NormalizedTitle[s[i]] # NormalizedTitle[s[j]]

\* The number of items of s whose normalized title is n.
Survivors(s, n) == Cardinality({i \in 1..Len(s) : NormalizedTitle[s[i]] = n})

\* Two items of the input differ only in case or surrounding whitespace.
HasCaseOrSpaceVariants(s) ==
    \E i, j \in 1..Len(s) :
        /\ s[i].title # s[j].title
        /\ NormalizedTitle[s[i]] = NormalizedTitle[s[j]]
        /\ Len(NormalizedTitle[s[i]]) > MinTitleLength

\* C1: the output of _deduplicate_and_prioritize and of _deduplicate_articles
\* holds no two items with the same normalized (lower-cased, stripped) title;
\* of the items of an input that share a normalized title longer than the
\* minimum, exactly one survives in an output that was not cut to the display
\* maximum.
C1_NoDuplicateTitles ==
    /\ prioritized.called =>
        /\ NoTwoWithSameTitle(prioritized.articles)
        /\ Len(all_articles) <= max_articles_display =>
              \A i \in 1..Len(all_articles) :
                  Len(NormalizedTitle[all_articles[i]]) > MinTitleLength =>
                      Survivors(prioritized.articles, NormalizedTitle[all_articles[i]]) = 1
    /\ unique.called =>
        /\ NoTwoWithSameTitle(unique.articles)
        /\ \A i \in 1..Len(all_articles) :
              Len(NormalizedTitle[all_articles[i]]) > MinTitleLength =>
                  Survivors(unique.articles, NormalizedTitle[all_articles[i]]) = 1

\* Both dedup steps ran on an input with a case/whitespace variant pair.
C1_Witness ==
    /\ prioritized.called /\ unique.called
    /\ HasCaseOrSpaceVariants(all_articles)
    /\ Len(prioritized.articles) < Len(all_articles)
    /\ Len(unique.articles) < Len(all_articles)
    /\ Len(unique.articles) > 0

\* The tier rank of the specification: breaking 0, priority-source 1, regular 2.
TierRank(a) ==
    IF Classified[a].breaking THEN 0 ELSE IF Classified[a].priority THEN 1 ELSE 2

\* s is ordered by tier, and inside a tier newest first.
OrderedByTierThenRecency(s) ==
    \A i \in 1..(Len(s) - 1) :
        /\ TierRank(s[i]) <= TierRank(s[i + 1])
        /\ TierRank(s[i]) = TierRank(s[i + 1]) =>
              s[i].published_at >= s[i + 1].published_at

\* C2: the list returned by _deduplicate_and_prioritize never decreases in
\* tier rank, and between adjacent items of one tier published_at never
\* increases.
C2_TierThenRecency ==
    prioritized.called => OrderedByTierThenRecency(prioritized.articles)

\* A ranked list of three items, of two tiers, two of one tier with different
\* published_at, that the input did not already have in this order.
C2_Witness ==
    /\ prioritized.called
    /\ Len(prioritized.articles) = 3
    /\ prioritized.articles # all_articles
    /\ \E i \in 1..2 : TierRank(prioritized.articles[i]) < TierRank(prioritized.articles[i + 1])
    /\ \E i \in 1..2 :
          /\ TierRank(prioritized.articles[i]) = TierRank(prioritized.articles[i + 1])
          /\ prioritized.articles[i].published_at > prioritized.articles[i + 1].published_at

----------------------------------------------------------------------------
(* Properties of the two caches (SpecCache).                               *)

\* The key has a recorded fetch: it was set and not cleared since.
HasRecordedFetch(key) == key \in DOMAIN set_log

\* The time since the last set of the key.
Elapsed(key) == now - set_log[key].at

\* C5: should_fetch(key) returns true exactly when the key has no recorded
\* fetch or at least the throttle interval has elapsed since the last set.
C5_ShouldFetchIffIntervalElapsed ==
    ret.op = "should_fetch" =>
        (ret.flag <=> (~HasRecordedFetch(ret.key)
                       \/ Elapsed(ret.key) >= MinInterval(kind)))

\* What get returns for a key without a valid entry.
NoValidEntry(k) == IF k = "RealTimeCache" THEN None ELSE List(<<>>)

\* C6: get(key) less than the TTL after set(key, items) returns exactly items;
\* once the TTL has elapsed, or for a key never set or cleared, it returns the
\* no-valid-entry signal.
C6_GetRoundTripWithinTtl ==
    ret.op = "get" =>
        IF HasRecordedFetch(ret.key) /\ Elapsed(ret.key) < CacheDuration(kind)
        THEN ret.value = List(set_log[ret.key].articles)
        ELSE ret.value = NoValidEntry(kind)

\* get is called at the instant the TTL of a non-empty entry has elapsed.
C6_Witness ==
    /\ ret.op = "get"
    /\ HasRecordedFetch(ret.key)
    /\ set_log[ret.key].articles # <<>>
    /\ Elapsed(ret.key) = CacheDuration(kind)
    /\ ret.value = NoValidEntry(kind)

----------------------------------------------------------------------------
(* Properties of the aggregation entry points (SpecAgg).                   *)

\* The call that just ended asked the sources of one category.
FetchedOneCategory ==
    /\ result.call = "fetch_news_concurrent"
    /\ result.fetched
    /\ Len(result.categories) = 1

\* C3: in the articles of every result of fetch_news_concurrent and of
\* fetch_real_time_news, an item with a breaking keyword stands before every
\* item of a lower tier, also when it was published earlier.
C3_BreakingBeforeLowerTiers ==
    result.outcome = "returned" =>
        \A i, j \in 1..Len(result.articles) :
            (TierRank(result.articles[i]) = 0 /\ TierRank(result.articles[j]) > 0)
                => i < j

\* C4: no upstream fetch for a key is started less than the throttle interval
\* after the previous fetch for the key was recorded by cache.set, whatever
\* list was recorded; a call inside the interval is answered with the items
\* that were recorded.
C4_NoFetchInsideThrottleInterval ==
    (/\ result.call # "none"
     /\ result.prev.recorded
     /\ result.at - result.prev.at < MinInterval(kind)) =>
        /\ ~result.fetched
        /\ result.outcome = "returned"
        /\ result.articles = set_log[CacheKeyOf(result.categories)].articles

\* A task of the cycle was still running when the deadline elapsed.
StillRunning(w) == w.api = "running" \/ w.rss = "running"

\* The number of sources of the cycle whose fetch raised: the two tasks of the
\* pool, and the clients inside the API task.
SourceFailures(w) ==
    (IF w.api = "raises" THEN 1
     ELSE IF w.api = "ok"
     THEN Cardinality({c \in {"hn", "reddit"} : w[c] = "raises"})
     ELSE 0)
    + (IF w.rss = "raises" THEN 1 ELSE 0)

\* What the sources that answered hold, in the order their tasks completed.
SuccessfulItems(category, w, order) ==
    LET held(c) == IF w[c] = "yields" THEN SourceItems[category][c] ELSE <<>>
        api_items == IF w.api = "ok" THEN held("hn") \o held("reddit") ELSE <<>>
        rss_items == held("rss")
    IN  IF order = "submitted" THEN api_items \o rss_items ELSE rss_items \o api_items

\* C7: a cycle in which one source raises and the others answer before the
\* deadline returns, without an exception, the result built from the items of
\* the sources that answered (deduplicated, sorted, truncated); a cycle of
\* fetch_real_time_news, whose tasks catch every exception, returns as well.
C7_OneFailedSourceIsIsolated ==
    /\ (/\ FetchedOneCategory
         /\ ~StillRunning(result.world[1])
         /\ SourceFailures(result.world[1]) = 1) =>
            /\ result.outcome = "returned"
            /\ result.articles =
                  Truncate(SortByPublishedDesc(DeduplicateArticles(
                      SuccessfulItems(result.categories[1], result.world[1], result.order))),
                      max_articles_display)
    /\ (result.call = "fetch_real_time_news" /\ result.fetched) =>
            result.outcome = "returned"

\* The API task raised, the RSS task answered, and the call returned the item
\* of the RSS task.
C7_Witness ==
    /\ FetchedOneCategory
    /\ result.world[1].api = "raises"
    /\ result.world[1].rss = "yields"
    /\ result.outcome = "returned"
    /\ Len(result.articles) = 1
    /\ result.articles[1].source = SourceReutersBusiness

\* C8: when the deadline of as_completed elapses with a task still running,
\* the call returns normally.
C8_DeadlineReturnsAccumulated ==
    (FetchedOneCategory /\ StillRunning(result.world[1])) =>
        result.outcome = "returned"

\* Every source of the cycle raised.
AllSourcesFailed(w) ==
    /\ w.rss = "raises"
    /\ w.api = "raises" \/ (w.api = "ok" /\ w.hn = "raises" /\ w.reddit = "raises")

\* C9: every aggregation call hands its caller a result and never an
\* exception, whichever sources fail; a cycle whose sources all raise returns
\* a result with no items, zero sources and no categories.
C9_FailuresNeverRaiseToCaller ==
    /\ result.call # "none" => result.outcome = "returned"
    /\ (FetchedOneCategory /\ AllSourcesFailed(result.world[1])) =>
            /\ result.articles = <<>>
            /\ result.total_sources = 0
            /\ result.categories_of = {}

----------------------------------------------------------------------------
(* Properties of the source adapters (SpecAdapter).                        *)

\* C10: the fetch operation of every adapter returns a list for every outcome
\* of its network call, and never raises to its caller.
C10_AdaptersNeverRaise ==
    adapter_ret.outcome # "raised"

----------------------------------------------------------------------------
(* The refresh loops.                                                      *)

\* Two results differ in item count or in the set of titles.
Differs(previous, new) == Len(new) # Len(previous) \/ Range(new) # Range(previous)

\* The loops whose notification is the callback of start_streaming or the
\* content update of display_news_live.
NotifyingLoops == {"stream_worker", "display_news_live"}

\* C11: the consumer is notified on a cycle only if the cycle's result differs
\* from the previous cycle's result in item count or in the set of titles; a
\* cycle repeating the previous result (two empty results included) notifies
\* nobody.
C11_NotifiedOnlyOnChange ==
    (loop_kind \in NotifyingLoops /\ last_cycle.compared /\ last_cycle.notified)
        => Differs(last_cycle.previous, last_cycle.result)

\* C12: a refresh loop reaches its stopped state only after an external
\* cancellation; no exception of a fetch, of the consumer, of the first cycle
\* or of the error report ends it.
C12_StopsOnlyOnCancellation == pc = "stopped" => ended_by = "cancel"

\* C13: a cycle that failed with an exception is followed, unless a
\* cancellation is delivered, by the start of another fetch.
C13_FailedCycleIsRetried ==
    (loop_kind \in SyncLoops /\ pc = "handler") ~> (pc = "fetching" \/ signalled)

\* C14: at most one fetch of a refresh loop is in flight at any time.
C14_AtMostOneFetchInFlight == in_flight <= 1

\* C14 witness: StreamingNewsApp.run has processed the result of a task and
\* the task of a later cycle is in flight.
C14_Witness ==
    /\ loop_kind = "StreamingNewsApp"
    /\ last_cycle.compared
    /\ fetch_task.state = "running"
    /\ in_flight = 1

\* C15: after a shutdown signal the loop starts no further fetch and reaches
\* its stopped state.
C15_ShutdownStopsLoop ==
    /\ [](signalled => ~after_signal)
    /\ signalled ~> (pc = "stopped")

----------------------------------------------------------------------------
(* The caches.                                                             *)

\* C16: set updates the content and the throttle timestamp of a key as one
\* step for a thread calling get and should_fetch: a thread handed the items
\* of one call of set never reads, afterwards, the throttle timestamp of an
\* earlier call, and a thread that read the throttle timestamp of one call is
\* never handed, afterwards, the items of an earlier call.
C16_SetIsAtomicForReaders ==
    reader.complete =>
        /\ reader.first = "get" => reader.stamp_of >= reader.items_of
        /\ reader.first = "should_fetch" => reader.items_of >= reader.stamp_of

\* should_fetch(key) was false when the call of fetch_real_time_news began: the
\* throttle timestamp of the key was the time of its last set.
ThrottledCall ==
    /\ result.call = "fetch_real_time_news"
    /\ result.prev.recorded
    /\ LET key == CacheKeyOf(result.categories)
       IN  ~RtShouldFetch(DictSet(EmptyDict, key, result.prev.at), key, result.at)

\* C17: a call of fetch_real_time_news made while should_fetch(key) is false
\* and the cache holds an entry for the key returns the items of that entry
\* and starts no upstream fetch.
C17_ThrottledCallServesEntry ==
    ThrottledCall =>
        /\ ~result.fetched
        /\ result.articles = set_log[CacheKeyOf(result.categories)].articles

\* The two timestamps the cache keeps for a key: the stored-at time of the
\* entry and the last-upstream-call time; <<>> stands for an absent one.
Timestamps(c, last, key) ==
    <<IF key \in DOMAIN c THEN <<c[key].timestamp>> ELSE <<>>,
      IF key \in DOMAIN last THEN <<last[key]>> ELSE <<>> >>

\* C18: the timestamps of a key change only in the step of an aggregation call
\* that fetched upstream for that key; get, should_fetch and the calls
\* answered from the cache leave the timestamps of every key as they were.
C18_TimestampsChangeOnlyOnFetch ==
    [][\A key \in Keys :
          Timestamps(cache', last_fetch', key) # Timestamps(cache, last_fetch, key)
              => /\ result = NoResult
                 /\ result'.fetched
                 /\ CacheKeyOf(result'.categories) = key]_vars

\* C18 witness: a call made later than the set of its key was answered from
\* the cache, and the timestamps of the key are still those of the set.
C18_Witness ==
    /\ result.call # "none"
    /\ ~result.fetched
    /\ result.prev.recorded
    /\ result.at > result.prev.at
    /\ LET key == CacheKeyOf(result.categories)
       IN  Timestamps(cache, last_fetch, key) = <<<<result.prev.at>>, <<result.prev.at>> >>

\* C19: should_fetch(key) called when the clock reads earlier than the
\* recorded last fetch of the key returns true.
C19_ShouldFetchFailsOpenOnSkew ==
    (/\ ret.op = "should_fetch"
     /\ HasRecordedFetch(ret.key)
     /\ now < set_log[ret.key].at) => ret.flag

----------------------------------------------------------------------------
(* The adapters and their entries.                                         *)

\* An entry that carries every field and a date that can be read.
WellFormed(entry) ==
    /\ {"title", "description", "url", "data"} \subseteq entry
    /\ "bad_date" \notin entry

\* The adapters required to skip a malformed entry.
SkippingAdapters == {"NewsAPIClient", "RedditNewsClient", "RSSFeedManager", "FeedFetcher"}

\* C20: an adapter handed a payload returns an item for every well-formed
\* entry of the payload, whatever the other entries of the payload are.
C20_MalformedEntryIsSkipped ==
    (/\ adapter_ret.adapter \in SkippingAdapters
     /\ adapter_ret.response.kind = "payload"
     /\ adapter_ret.response.top
     /\ adapter_ret.response.list) =>
        /\ adapter_ret.outcome = "returned"
        /\ \A i \in 1..Len(adapter_ret.response.entries) :
              WellFormed(adapter_ret.response.entries[i])
                  => \E j \in 1..Len(adapter_ret.items) : adapter_ret.items[j].entry = i

----------------------------------------------------------------------------
(* The dedup step, once more.                                              *)

\* The output holds no item with a normalized title shorter than the minimum,
\* and every item of the input whose normalized title has at least the
\* minimum length is represented in it.
DropsExactlyTheShort(input, output) ==
    /\ \A j \in 1..Len(output) : Len(NormalizedTitle[output[j]]) >= MinTitleLength
    /\ \A i \in 1..Len(input) :
          Len(NormalizedTitle[input[i]]) >= MinTitleLength
              => Survivors(output, NormalizedTitle[input[i]]) >= 1

\* C21: the dedup step drops an item for its length exactly when its
\* normalized title has fewer than 10 characters; an item with exactly 10 is
\* kept unless it is a duplicate.  Both dedup steps, outputs not cut to the
\* display maximum.
C21_DropsOnlyShorterThanMinimum ==
    /\ (prioritized.called /\ Len(all_articles) <= max_articles_display)
            => DropsExactlyTheShort(all_articles, prioritized.articles)
    /\ unique.called => DropsExactlyTheShort(all_articles, unique.articles)

\* The position of the first item of the input with the normalized title n.
FirstWithTitle(input, n) ==
    CHOOSE i \in 1..Len(input) :
        /\ NormalizedTitle[input[i]] = n
        /\ \A k \in 1..(i - 1) : NormalizedTitle[input[k]] # n

\* Every item of the output is the first item of the input with its
\* normalized title, and the only item of the output with that title.
FirstOccurrenceWins(input, output) ==
    \A j \in 1..Len(output) :
        LET n == NormalizedTitle[output[j]]
        IN  /\ output[j] = input[FirstWithTitle(input, n)]
            /\ Survivors(output, n) = 1

\* C22: of the input items that share a normalized title, the dedup step
\* keeps the first in input order and drops every later one, whatever their
\* source, tier or published_at.
C22_FirstOccurrenceWins ==
    /\ prioritized.called => FirstOccurrenceWins(all_articles, prioritized.articles)
    /\ unique.called => FirstOccurrenceWins(all_articles, unique.articles)

\* C22 witness: the input holds two items with one normalized title, the
\* later one newer and of a higher tier, and both outputs hold the earlier.
C22_Witness ==
    /\ prioritized.called /\ unique.called
    /\ \E i, k \in 1..Len(all_articles) :
          /\ i < k
          /\ NormalizedTitle[all_articles[i]] = NormalizedTitle[all_articles[k]]
          /\ all_articles[k].published_at > all_articles[i].published_at
          /\ all_articles[k].source # all_articles[i].source
          /\ TierRank(all_articles[k]) < TierRank(all_articles[i])
          /\ \E j \in 1..Len(prioritized.articles) : prioritized.articles[j] = all_articles[i]
          /\ \E j \in 1..Len(unique.articles) : unique.articles[j] = all_articles[i]
          /\ \A j \in 1..Len(prioritized.articles) : prioritized.articles[j] # all_articles[k]

\* The tier the specification gives an item: breaking when the title or the
\* description holds a breaking keyword, else priority when the source name
\* holds a name of the priority list, else regular.
SpecifiedTier ==
    [a \in AllArticles |->
        IF \E keyword \in breaking_news_keywords :
               \/ Contains(keyword, Lower(a.title))
               \/ Contains(keyword, Lower(a.description))
        THEN "breaking"
        ELSE IF \E name \in priority_sources : Contains(Lower(name), Lower(a.source))
        THEN "priority"
        ELSE "regular"]

\* The tier lists in which the loop has put the item.
TiersOf(t, a) ==
    {name \in {"breaking", "priority", "regular"} :
        a \in Range(IF name = "breaking" THEN t.breaking_news
                    ELSE IF name = "priority" THEN t.priority_news
                    ELSE t.regular_news)}

\* C23: every item that survives dedup is in exactly one tier list, the one
\* of the first matching rule in the order breaking, priority source, regular.
C23_ExactlyOneTierFirstMatchWins ==
    prioritized.called =>
        LET t == Tiered(all_articles)
            survivors == Range(t.breaking_news) \cup Range(t.priority_news)
                         \cup Range(t.regular_news)
        IN  /\ Range(prioritized.articles) \subseteq survivors
            /\ \A a \in survivors : TiersOf(t, a) = {SpecifiedTier[a]}

\* C23 witness: the step ran on an item of a priority source that has a
\* breaking keyword in its description only, an item of a priority source
\* without keyword and a regular item, and returned all three.
C23_Witness ==
    /\ prioritized.called
    /\ Len(prioritized.articles) = 3
    /\ \E a \in Range(prioritized.articles) :
          /\ SpecifiedTier[a] = "breaking"
          /\ IsPrioritySource(a)
          /\ ~IsBreakingNewsTitleOnly(a)
    /\ \E a \in Range(prioritized.articles) : SpecifiedTier[a] = "priority"
    /\ \E a \in Range(prioritized.articles) : SpecifiedTier[a] = "regular"

\* Item r ranks before item k: a higher tier, or the same tier and newer.
RanksBefore(r, k) ==
    \/ TierRank(r) < TierRank(k)
    \/ TierRank(r) = TierRank(k) /\ r.published_at > k.published_at

\* `kept` is `survivors` cut to at most `limit` items, and no item that was
\* cut ranks before an item that was kept.
CutFromTheLowEnd(survivors, kept, limit) ==
    /\ Len(kept) <= limit
    /\ Len(kept) = (IF Len(survivors) < limit THEN Len(survivors) ELSE limit)
    /\ Range(kept) \subseteq Range(survivors)
    /\ \A r \in Range(survivors) \ Range(kept) :
          \A k \in Range(kept) : ~RanksBefore(r, k)

\* C24: the ranked output has at most max_articles_display items, and when
\* more items survive it is the first max of the ranked survivors: what is
\* cut is low-priority, oldest.  Both _deduplicate_and_prioritize and the
\* fetched results of fetch_news_concurrent.
C24_TruncationCutsTheLowEnd ==
    /\ prioritized.called =>
          CutFromTheLowEnd(DeduplicateAndPrioritize(all_articles, Len(all_articles)),
                           prioritized.articles, max_articles_display)
    /\ (result.call = "fetch_news_concurrent" /\ result.fetched
            /\ result.outcome = "returned") =>
          CutFromTheLowEnd(
              Cycles[result.categories][result.world][result.order]
                    [DefaultMaxArticlesDisplay].final_articles,
              result.articles, max_articles_display)

----------------------------------------------------------------------------
(* The cache key and the callers of one cache.                             *)

\* C25: the cache key of a request depends only on the set of requested
\* categories: two request lists holding the same set of categories, in any
\* order and with any repetition, get the same key, and two lists holding
\* different sets get different keys.
C25_KeyDependsOnlyOnCategorySet ==
    requests.keyed =>
        ((Range(requests.first) = Range(requests.second))
            <=> (requests.first_key = requests.second_key))

\* The time between two readings of the clock.
Distance(t, u) == IF t >= u THEN t - u ELSE u - t

\* C27: when two callers are inside fetch_real_time_news for the same category
\* set, at most one of them fetches from the sources within one throttle
\* interval: two fetches by different callers are at least the throttle
\* interval apart.
C27_OneFetchPerThrottleInterval ==
    \A a \in Callers : \A b \in Callers \ {a} :
        \A i \in 1..Len(callers[a].fetched), j \in 1..Len(callers[b].fetched) :
            Distance(callers[a].fetched[i], callers[b].fetched[j]) >= RtMinFetchInterval

----------------------------------------------------------------------------
(* The fetch task of StreamingNewsApp.run.                                 *)

\* C26: in StreamingNewsApp.run, the result of every fetch task that has
\* completed is passed to terminal.add_articles before the task reference is
\* cleared or replaced by a new task: whenever a finished task that holds
\* items stops being fetch_task, the terminal has just been given its items.
C26_CompletedResultIsAdded ==
    [][(/\ loop_kind = "StreamingNewsApp"
        /\ fetch_task.state = "done"
        /\ fetch_task.articles # <<>>
        /\ fetch_task' # fetch_task)
            => shown' = fetch_task.articles]_vars

----------------------------------------------------------------------------
(* The synchronous fetch of the real-time aggregator.                      *)

\* The items the API sources and the RSS sources yield for a category whose
\* published_at is later than two hours before t.
RecentItems(category, w, t) ==
    SelectSeq(FetchAllNews(category, w, 1) \o Yielded(category, "rss", w.rss),
              LAMBDA a : a.published_at > t - TwoHours)

\* C28: for every category, _fetch_sync_news returns exactly the items yielded
\* for it by the API sources and the RSS sources whose published_at is later
\* than two hours before the call; when a source yields such an item the
\* returned list is not empty.
C28_SyncFetchReturnsRecentItems ==
    (result.call = "fetch_real_time_news" /\ result.fetched) =>
        \A i \in 1..Len(result.categories) :
            FetchSyncNews(result.categories[i], result.world[i])
                = RecentItems(result.categories[i], result.world[i], result.at)

----------------------------------------------------------------------------
(* What a result says about the aggregator, and the aggregator about it.   *)

\* C29: the last_updated field of every result returned by
\* fetch_news_concurrent or fetch_real_time_news is the time at which the
\* returned items were fetched and cached for the requested category set, also
\* for a result answered from the cache after other category sets were
\* fetched in between.
C29_LastUpdatedIsFetchTimeOfTheItems ==
    (result.call # "none" /\ result.outcome = "returned") =>
        result.last_updated = IF result.fetched THEN result.at ELSE result.prev.at

\* C30: after any sequence of fetch_news_concurrent calls, answered by a fetch
\* or from the cache, the current article list of the aggregator equals the
\* articles of the most recently returned result.
C30_CurrentArticlesAreTheLastResult ==
    (result.call = "fetch_news_concurrent" /\ result.outcome = "returned") =>
        current_articles = result.articles
====
